---- MODULE Spec2Model ----
(***************************************************************************)
(* PixelRefiner core: a model of the image pipeline of src/core.           *)
(*                                                                         *)
(* A bitmap (RawImage) is a record [width, height, data]; data is the      *)
(* row-major sequence of its pixels, pixel p (0-based, p = y*width + x)    *)
(* being data[p+1] = <<r, g, b, a>>.  The byte buffer of the source holds  *)
(* the same four channels at 4p .. 4p+3.                                   *)
(***************************************************************************)
EXTENDS Integers, Sequences, FiniteSets, TLC

VARIABLES
    call,       \* the function call under study: its name and its arguments
    ret,        \* [status |-> "pending"] before the call; after it, what the call left
    pc,         \* processImage: where the call stands ("fn" for the other functions)
    heap,       \* processImage: the content of every live pixel buffer
    loc         \* processImage: the locals assigned so far

fnVars == <<call, ret>>
procVars == <<pc, heap, loc>>
vars == <<call, ret, pc, heap, loc>>

(***************************************************************************)
(* Bounds of the inputs.                                                   *)
(***************************************************************************)
MaxSide == 3
MaxPixels == 6

Pending == [status |-> "pending"]

\* the values of pc, heap and loc in the specifications of a single function
NoMem == [b \in {} |-> <<>>]
NoLoc == [taps |-> <<>>, shown |-> <<>>]
FnOnly == pc = "fn" /\ heap = NoMem /\ loc = NoLoc

\* The one element of a singleton set.  { e(x) : x \in {v} } evaluates v once
\* and names the value x.
Only(S) == CHOOSE v \in S : TRUE

Abs(v) == IF v < 0 THEN -v ELSE v
Min2(a, b) == IF a < b THEN a ELSE b
Max2(a, b) == IF a > b THEN a ELSE b
rgbOf(px) == <<px[1], px[2], px[3]>>

\* The smallest k with 2^k >= n.
Log2Ceil(n) == CHOOSE k \in 0..30 : 2^k >= n /\ (k = 0 \/ 2^(k - 1) < n)

(***************************************************************************)
(* JavaScript numbers.  Every number of the source is an IEEE-754 binary64 *)
(* value; the pipeline's cell sizes and crop extents are in general not    *)
(* integers, so they are modelled bit-exactly.  A non-negative double is   *)
(* the record [m, e] standing for m * 2^e, m an odd natural number (or     *)
(* m = 0, e = 0); m is a sequence of base-2^15 limbs, least significant    *)
(* first, without leading zero limbs (<<>> is 0).  Results are rounded to  *)
(* 53 significant bits, ties to even, as the hardware does; the values of  *)
(* the pipeline stay far from the subnormal and overflow ranges.           *)
(***************************************************************************)
LimbBase == 2^15

SetMax(S) == CHOOSE v \in S : \A u \in S : u <= v

limb(a, i) == IF i >= 1 /\ i <= Len(a) THEN a[i] ELSE 0

bnTrim(s0) ==
    (CHOOSE v_ \in { SubSeq(s, 1, SetMax({0} \cup {i \in 1..Len(s) : s[i] # 0})) : s \in {s0} } : TRUE)

RECURSIVE bnFromInt(_)
bnFromInt(n) ==
    IF n = 0 THEN <<>> ELSE <<n % LimbBase>> \o bnFromInt(n \div LimbBase)

RECURSIVE bnToInt(_)
bnToInt(s0) ==
    (CHOOSE v_ \in { IF s = <<>> THEN 0 ELSE s[1] + LimbBase * bnToInt(Tail(s)) : s \in {s0} } : TRUE)

bnAdd(a0, b0) ==
    (CHOOSE v_ \in {
      LET n == Max2(Len(a), Len(b)) + 1
          c[i \in 0..n] ==
              IF i = 0 THEN 0 ELSE (limb(a, i) + limb(b, i) + c[i - 1]) \div LimbBase
      IN  bnTrim([i \in 1..n |-> (limb(a, i) + limb(b, i) + c[i - 1]) % LimbBase])
      : a \in {a0}, b \in {b0} } : TRUE)

\* a - b for a >= b
bnSub(a0, b0) ==
    (CHOOSE v_ \in {
      LET n == Len(a)
          br[i \in 0..n] ==
              IF i = 0 THEN 0
              ELSE IF limb(a, i) - limb(b, i) - br[i - 1] < 0 THEN 1 ELSE 0
      IN  bnTrim([i \in 1..n |->
                    (limb(a, i) - limb(b, i) - br[i - 1] + LimbBase) % LimbBase])
      : a \in {a0}, b \in {b0} } : TRUE)

\* -1, 0, 1 as a < b, a = b, a > b
bnCmp(a0, b0) ==
    (CHOOSE v_ \in {
      IF Len(a) # Len(b) THEN (IF Len(a) < Len(b) THEN -1 ELSE 1)
      ELSE LET D == {i \in 1..Len(a) : a[i] # b[i]}
           IN  IF D = {} THEN 0
               ELSE IF a[SetMax(D)] < b[SetMax(D)] THEN -1 ELSE 1
      : a \in {a0}, b \in {b0} } : TRUE)

\* a * k for 0 <= k <= LimbBase
bnMulSmall(a0, k0) ==
    (CHOOSE v_ \in {
      LET n == Len(a) + 1
          c[i \in 0..n] ==
              IF i = 0 THEN 0 ELSE (limb(a, i) * k + c[i - 1]) \div LimbBase
      IN  bnTrim([i \in 1..n |-> (limb(a, i) * k + c[i - 1]) % LimbBase])
      : a \in {a0}, k \in {k0} } : TRUE)

bnShiftLimbs(a0, n) ==
    (CHOOSE v_ \in { IF a = <<>> THEN <<>> ELSE [i \in 1..n |-> 0] \o a : a \in {a0} } : TRUE)

bnMul(a0, b0) ==
    (CHOOSE v_ \in {
      LET acc[j \in 0..Len(b)] ==
              IF j = 0 THEN <<>>
              ELSE bnAdd(acc[j - 1], bnShiftLimbs(bnMulSmall(a, b[j]), j - 1))
      IN  acc[Len(b)]
      : a \in {a0}, b \in {b0} } : TRUE)

\* a * 2^k and floor(a / 2^k)
bnShl(a0, k0) ==
    (CHOOSE v_ \in { bnShiftLimbs(bnMulSmall(a, 2^(k % 15)), k \div 15)
           : a \in {a0}, k \in {k0} } : TRUE)

bnShr(a0, k0) ==
    (CHOOSE v_ \in {
      IF k \div 15 >= Len(a) THEN <<>>
      ELSE LET d == SubSeq(a, (k \div 15) + 1, Len(a))
               p == 2^(k % 15)
           IN  bnTrim([i \in 1..Len(d) |->
                         (d[i] \div p) + (limb(d, i + 1) % p) * (LimbBase \div p)])
      : a \in {a0}, k \in {k0} } : TRUE)

\* number of bits of a, and bit i (bit 0 is the lowest)
bnBitLen(a0) ==
    (CHOOSE v_ \in {
      IF a = <<>> THEN 0
      ELSE 15 * (Len(a) - 1)
           + (CHOOSE k \in 1..15 : 2^(k - 1) <= a[Len(a)] /\ a[Len(a)] < 2^k)
      : a \in {a0} } : TRUE)

bnBit(a, i) == (limb(a, (i \div 15) + 1) \div 2^(i % 15)) % 2

\* number of trailing zero bits of a # 0
bnTrailingZeros(a0) ==
    (CHOOSE v_ \in {
      LET i0 == CHOOSE i \in 1..Len(a) : a[i] # 0 /\ \A j \in 1..(i - 1) : a[j] = 0
      IN  15 * (i0 - 1)
          + (CHOOSE k \in 0..14 : a[i0] % 2^k = 0 /\ a[i0] % 2^(k + 1) # 0)
      : a \in {a0} } : TRUE)

\* Binary long division, one bit of n per step from the top bit down:
\* st = [q, r, i], i the next bit of n to bring down (-1 when done).
bnDivStep(st, n, d) ==
    (CHOOSE v_ \in {
      IF bnCmp(r2, d) >= 0
      THEN [q |-> bnAdd(bnAdd(st.q, st.q), <<1>>), r |-> bnSub(r2, d), i |-> st.i - 1]
      ELSE [q |-> bnAdd(st.q, st.q), r |-> r2, i |-> st.i - 1]
      : r2 \in {bnAdd(bnAdd(st.r, st.r), bnFromInt(bnBit(n, st.i)))} } : TRUE)

RECURSIVE bnDivLoop(_, _, _, _)
bnDivLoop(st0, n, d, k) ==
    IF k = 0
    THEN CHOOSE r \in { IF st.i < 0 THEN st ELSE bnDivStep(st, n, d)
                        : st \in {st0} } : TRUE
    ELSE CHOOSE r \in { IF mid.i < 0 THEN mid ELSE bnDivLoop(mid, n, d, k - 1)
                        : mid \in {bnDivLoop(st0, n, d, k - 1)} } : TRUE

\* [q, r] with n = q*d + r, 0 <= r < d
bnDivMod(n0, d0) ==
    (CHOOSE v_ \in { bnDivLoop([q |-> <<>>, r |-> <<>>, i |-> bnBitLen(n) - 1], n, d,
                     Log2Ceil(bnBitLen(n) + 1))
           : n \in {n0}, d \in {d0} } : TRUE)

\* the double m * 2^e in normal form (m odd)
fNorm(m0, e0) ==
    (CHOOSE v_ \in {
      IF m = <<>> THEN [m |-> <<>>, e |-> 0]
      ELSE (CHOOSE v_ \in { [m |-> bnShr(m, tz), e |-> e + tz] : tz \in {bnTrailingZeros(m)} } : TRUE)
      : m \in {m0}, e \in {e0} } : TRUE)

\* the double nearest to n * 2^e (round to nearest, ties to even)
fRound(n0, e0) ==
    (CHOOSE v_ \in {
      IF bnBitLen(n) <= 53 THEN fNorm(n, e)
      ELSE (CHOOSE v_ \in {
             LET c == bnCmp(bnSub(n, bnShl(q, sh)), bnShl(<<1>>, sh - 1))
                 up == c > 0 \/ (c = 0 /\ q[1] % 2 = 1)
             IN  fNorm(IF up THEN bnAdd(q, <<1>>) ELSE q, e + sh)
             : sh \in {bnBitLen(n) - 53}, q \in {bnShr(n, bnBitLen(n) - 53)} } : TRUE)
      : n \in {n0}, e \in {e0} } : TRUE)

\* the double of an integer 0 <= n < 2^31
F(n) == fNorm(bnFromInt(n), 0)

fmul(x0, y0) ==
    (CHOOSE v_ \in { fRound(bnMul(x.m, y.m), x.e + y.e) : x \in {x0}, y \in {y0} } : TRUE)

\* the mantissas of x and y over their common (smaller) exponent
fAligned(x0, y0) ==
    (CHOOSE v_ \in {
      (CHOOSE v_ \in { [a |-> bnShl(x.m, x.e - e), b |-> bnShl(y.m, y.e - e), e |-> e]
             : e \in {Min2(x.e, y.e)} } : TRUE)
      : x \in {x0}, y \in {y0} } : TRUE)

fadd(x0, y0) ==
    (CHOOSE v_ \in { fRound(bnAdd(al.a, al.b), al.e) : al \in {fAligned(x0, y0)} } : TRUE)

\* |x - y|
fabsdiff(x0, y0) ==
    (CHOOSE v_ \in {
      IF bnCmp(al.a, al.b) >= 0 THEN fRound(bnSub(al.a, al.b), al.e)
      ELSE fRound(bnSub(al.b, al.a), al.e)
      : al \in {fAligned(x0, y0)} } : TRUE)

flt(x0, y0) == (CHOOSE v_ \in { bnCmp(al.a, al.b) < 0 : al \in {fAligned(x0, y0)} } : TRUE)

\* x / y for y # 0: the quotient to 55 bits and more, the last bit sticky.
\* A quotient of two short mantissas that divides evenly is exact and needs
\* no long division.
fdiv(x0, y0) ==
    (CHOOSE v_ \in {
      IF x.m = <<>> THEN x
      ELSE IF Len(x.m) = 1 /\ Len(y.m) = 1 /\ x.m[1] % y.m[1] = 0
      THEN fNorm(<<x.m[1] \div y.m[1]>>, x.e - y.e)
      ELSE (CHOOSE v_ \in {
             (CHOOSE v_ \in { fRound(bnAdd(bnAdd(dm.q, dm.q),
                                 IF dm.r = <<>> THEN <<>> ELSE <<1>>),
                           x.e - y.e - k - 1)
                    : dm \in {bnDivMod(bnShl(x.m, k), y.m)} } : TRUE)
             : k \in {Max2(0, 55 + bnBitLen(y.m) - bnBitLen(x.m))} } : TRUE)
      : x \in {x0}, y \in {y0} } : TRUE)

\* Math.floor(x), and Math.round(x) = floor(x + 1/2) computed exactly
mathFloor(x0) ==
    (CHOOSE v_ \in { IF x.e >= 0 THEN bnToInt(bnShl(x.m, x.e)) ELSE bnToInt(bnShr(x.m, -x.e))
           : x \in {x0} } : TRUE)

mathRound(x0) ==
    (CHOOSE v_ \in { bnToInt(bnShr(bnAdd(al.a, al.b), -al.e))
           : al \in {fAligned(x0, [m |-> <<1>>, e |-> -1])} } : TRUE)

\* The shapes (width, height) of the input bitmaps.
Shapes == {s \in (1..MaxSide) \X (1..MaxSide) : s[1] * s[2] <= MaxPixels}

\* All bitmaps of a shape over a set of pixel values.
ImagesOver(shapes, pixels) ==
    UNION {{[width |-> s[1], height |-> s[2], data |-> d] :
                d \in [1..(s[1] * s[2]) -> pixels]} : s \in shapes}

(***************************************************************************)
(* Loops.  Loop(Step, Done, st, k) is `while (!Done(st)) st = Step(st)`    *)
(* for loops of at most 2^k iterations; it runs them as two halves of      *)
(* 2^(k-1), so the evaluation nests k deep whatever the iteration count.   *)
(***************************************************************************)
RECURSIVE Loop(_, _, _, _)
Loop(Step(_), Done(_), st0, k) ==
    IF k = 0
    THEN CHOOSE r \in { IF Done(st) THEN st ELSE Step(st) : st \in {st0} } : TRUE
    ELSE CHOOSE r \in { IF Done(mid) THEN mid ELSE Loop(Step, Done, mid, k - 1)
                        : mid \in {Loop(Step, Done, st0, k - 1)} } : TRUE

\* term(lo) + ... + term(hi), summed by halves
RECURSIVE sumRange(_, _, _)
sumRange(term(_), lo, hi) ==
    IF lo > hi THEN 0
    ELSE IF lo = hi THEN term(lo)
    ELSE sumRange(term, lo, (lo + hi) \div 2)
         + sumRange(term, ((lo + hi) \div 2) + 1, hi)

(***************************************************************************)
(* Enclosures of doubles.  The colour conversions call Math.cbrt and `**`, *)
(* whose results are not functions of IEEE-754 alone: an engine returns a  *)
(* double within one unit in the last place of the true value.  Such a     *)
(* number is modelled by an interval [lo, hi] that is certain to hold it.  *)
(* The bounds are signed fixed-point numbers, integers counted in units of *)
(* 2^-45 (three limbs); an integer is the record [neg, a] of its sign and  *)
(* its magnitude.  Every operation rounds lo down and hi up, and then      *)
(* moves both outwards by more than the rounding of the double operation.  *)
(* Where the code branches on such a number and the interval leaves the    *)
(* branch open, both branches are outcomes.                                *)
(***************************************************************************)
FxLimbs == 3

sInt(neg, a) == [neg |-> neg /\ a # <<>>, a |-> a]
sNeg(x) == sInt(~x.neg, x.a)

sAdd(x0, y0) ==
    (CHOOSE v_ \in {
      IF x.neg = y.neg THEN sInt(x.neg, bnAdd(x.a, y.a))
      ELSE IF bnCmp(x.a, y.a) >= 0 THEN sInt(x.neg, bnSub(x.a, y.a))
      ELSE sInt(y.neg, bnSub(y.a, x.a))
      : x \in {x0}, y \in {y0} } : TRUE)

sSub(x, y) == sAdd(x, sNeg(y))

\* -1, 0, 1 as x < y, x = y, x > y
sCmp(x0, y0) ==
    (CHOOSE v_ \in {
      IF x.neg # y.neg THEN (IF x.neg THEN -1 ELSE 1)
      ELSE IF x.neg THEN bnCmp(y.a, x.a) ELSE bnCmp(x.a, y.a)
      : x \in {x0}, y \in {y0} } : TRUE)

sMin(x0, y0) == (CHOOSE v_ \in { IF sCmp(x, y) <= 0 THEN x ELSE y : x \in {x0}, y \in {y0} } : TRUE)
sMax(x0, y0) == (CHOOSE v_ \in { IF sCmp(x, y) >= 0 THEN x ELSE y : x \in {x0}, y \in {y0} } : TRUE)

sMul(x0, y0) ==
    (CHOOSE v_ \in { sInt(x.neg # y.neg, bnMul(x.a, y.a)) : x \in {x0}, y \in {y0} } : TRUE)

\* floor(a / 2^(15 k)) and whether the division left a remainder
bnDropLimbs(a, k) == IF Len(a) <= k THEN <<>> ELSE SubSeq(a, k + 1, Len(a))
bnLowLimbsZero(a, k) == \A i \in 1..Min2(k, Len(a)) : a[i] = 0

\* floor and ceiling of x / 2^45
sFloorFx(x0) ==
    (CHOOSE v_ \in {
      IF x.neg /\ ~bnLowLimbsZero(x.a, FxLimbs)
      THEN sInt(TRUE, bnAdd(bnDropLimbs(x.a, FxLimbs), <<1>>))
      ELSE sInt(x.neg, bnDropLimbs(x.a, FxLimbs))
      : x \in {x0} } : TRUE)

sCeilFx(x0) ==
    (CHOOSE v_ \in {
      IF ~x.neg /\ ~bnLowLimbsZero(x.a, FxLimbs)
      THEN sInt(FALSE, bnAdd(bnDropLimbs(x.a, FxLimbs), <<1>>))
      ELSE sInt(x.neg, bnDropLimbs(x.a, FxLimbs))
      : x \in {x0} } : TRUE)

\* [q, r] with a = q * k + r, 0 <= r < k, for 0 < k < 2^15
bnDivSmall(a0, k0) ==
    (CHOOSE v_ \in {
      LET n == Len(a)
          r[i \in 1..(n + 1)] ==
              IF i = n + 1 THEN 0 ELSE (r[i + 1] * LimbBase + a[i]) % k
      IN  [q |-> bnTrim([i \in 1..n |-> (r[i + 1] * LimbBase + a[i]) \div k]),
           r |-> r[1]]
      : a \in {a0}, k \in {k0} } : TRUE)

\* floor and ceiling of x / k for an integer 0 < k < 2^15
sFloorDiv(x0, k) ==
    (CHOOSE v_ \in {
      IF x.neg /\ d.r # 0 THEN sInt(TRUE, bnAdd(d.q, <<1>>)) ELSE sInt(x.neg, d.q)
      : x \in {x0}, d \in {bnDivSmall(x0.a, k)} } : TRUE)

sCeilDiv(x0, k) ==
    (CHOOSE v_ \in {
      IF ~x.neg /\ d.r # 0 THEN sInt(FALSE, bnAdd(d.q, <<1>>)) ELSE sInt(x.neg, d.q)
      : x \in {x0}, d \in {bnDivSmall(x0.a, k)} } : TRUE)

\* the fixed-point number of an integer -2^15 < n < 2^15
fxInt(n) == sInt(n < 0, bnShiftLimbs(bnFromInt(Abs(n)), FxLimbs))

Iv(lo, hi) == [lo |-> lo, hi |-> hi]
ivInt(n) == Iv(fxInt(n), fxInt(n))

\* the interval moved outwards by one unit and by 2^-bits of its size: the
\* double the code computes lies within that of the true result
ivWiden(x0, bits) ==
    (CHOOSE v_ \in {
      (CHOOSE v_ \in { Iv(sSub(x.lo, sInt(FALSE, e)), sAdd(x.hi, sInt(FALSE, e)))
             : e \in {bnAdd(<<1>>, bnShr(IF bnCmp(x.lo.a, x.hi.a) >= 0
                                         THEN x.lo.a ELSE x.hi.a, bits))} } : TRUE)
      : x \in {x0} } : TRUE)

\* the roundings of one arithmetic operation on doubles, of a decimal
\* constant, and of cbrt and `**` (with the exponent a rounded constant)
RoundBits == 50
LibraryBits == 48

ivNeg(x) == Iv(sNeg(x.hi), sNeg(x.lo))

ivAdd(x0, y0) ==
    (CHOOSE v_ \in { ivWiden(Iv(sAdd(x.lo, y.lo), sAdd(x.hi, y.hi)), RoundBits)
           : x \in {x0}, y \in {y0} } : TRUE)

ivSub(x, y) == ivAdd(x, ivNeg(y))

ivMul(x0, y0) ==
    (CHOOSE v_ \in {
      IF ~x.lo.neg /\ ~y.lo.neg
      THEN ivWiden(Iv(sFloorFx(sMul(x.lo, y.lo)), sCeilFx(sMul(x.hi, y.hi))), RoundBits)
      ELSE (CHOOSE v_ \in {
             ivWiden(Iv(sFloorFx(sMin(sMin(a, b), sMin(c, d))),
                        sCeilFx(sMax(sMax(a, b), sMax(c, d)))), RoundBits)
             : a \in {sMul(x.lo, y.lo)}, b \in {sMul(x.lo, y.hi)},
               c \in {sMul(x.hi, y.lo)}, d \in {sMul(x.hi, y.hi)} } : TRUE)
      : x \in {x0}, y \in {y0} } : TRUE)

\* x / k for an integer 0 < k < 2^15
ivDivInt(x0, k) ==
    (CHOOSE v_ \in { ivWiden(Iv(sFloorDiv(x.lo, k), sCeilDiv(x.hi, k)), RoundBits)
           : x \in {x0} } : TRUE)

\* the decimal constant (hi5 * 10^5 + lo5) / 10^10, as the double the
\* source text stands for
ivDec(hi5, lo5) ==
    (CHOOSE v_ \in {
      ivWiden(Iv(sFloorDiv(sFloorDiv(sFloorDiv(n, 10000), 10000), 100),
                 sCeilDiv(sCeilDiv(sCeilDiv(n, 10000), 10000), 100)), RoundBits)
      : n \in {sInt(FALSE, bnShiftLimbs(bnAdd(bnMul(bnFromInt(hi5), bnFromInt(100000)),
                                           bnFromInt(lo5)), FxLimbs))} } : TRUE)

\* certainly x <= y, certainly x > y
ivSureLe(x, y) == sCmp(x.hi, y.lo) <= 0
ivSureGt(x, y) == sCmp(x.lo, y.hi) > 0

\* the interval around two intervals
ivHull(x, y) == Iv(sMin(x.lo, y.lo), sMax(x.hi, y.hi))

\* a^n for n >= 1, exactly
RECURSIVE bnPow(_, _)
bnPow(a0, n) ==
    IF n = 1 THEN a0
    ELSE IF n % 2 = 0
    THEN (CHOOSE v_ \in { bnMul(h, h) : h \in {bnPow(a0, n \div 2)} } : TRUE)
    ELSE bnMul(bnPow(a0, n - 1), a0)

\* The greatest y with y^n <= c, found bit by bit from bit top down:
\* st = [y, i], i the next bit to try (-1 when done).
rootStep(st, c, n) ==
    (CHOOSE v_ \in {
      IF bnCmp(bnPow(t, n), c) <= 0 THEN [y |-> t, i |-> st.i - 1]
      ELSE [y |-> st.y, i |-> st.i - 1]
      : t \in {bnAdd(st.y, bnShl(<<1>>, st.i))} } : TRUE)

bnRoot(c0, n) ==
    (CHOOSE v_ \in {
      Loop(LAMBDA st : rootStep(st, c, n), LAMBDA st : st.i < 0,
           [y |-> <<>>, i |-> bnBitLen(c) \div n], 6).y
      : c \in {c0} } : TRUE)

\* the n-th root of a fixed-point number x >= 0, rounded down: the greatest
\* y with (y / 2^45)^n <= x / 2^45
fxRootFloor(x, n) == bnRoot(bnShiftLimbs(x, FxLimbs * (n - 1)), n)

\* the least y0 + 2^j, j >= 0, whose n-th power is above c, for y0 at or
\* below the root of c: st = [d], the distance tried
bnRootAbove(y0, c0, n) ==
    (CHOOSE v_ \in {
      bnAdd(y0, Loop(LAMBDA st : [d |-> bnAdd(st.d, st.d)],
                     LAMBDA st : bnCmp(bnPow(bnAdd(y0, st.d), n), c) > 0,
                     [d |-> <<1>>], 6).d)
      : c \in {c0} } : TRUE)

\* the n-th root of an interval of numbers >= 0 (a negative lower bound, which
\* only the widening can produce, counts as 0): the root of the lower bound
\* rounded down, and a number close above it whose power exceeds the upper
\* bound
ivRoot(x0, n) ==
    (CHOOSE v_ \in {
      (CHOOSE v_ \in {
        Iv(sInt(FALSE, y), sInt(FALSE, bnRootAbove(y, bnShiftLimbs(x.hi.a, FxLimbs * (n - 1)), n)))
        : y \in {IF x.lo.neg THEN <<>> ELSE fxRootFloor(x.lo.a, n)} } : TRUE)
      : x \in {x0} } : TRUE)

\* x^n for n >= 1 by repeated multiplication (without the roundings of the
\* doubles in between: the callers widen the result)
RECURSIVE ivPowInt(_, _)
ivPowInt(x, n) == IF n = 1 THEN x ELSE ivMul(ivPowInt(x, n - 1), x)

\* Math.cbrt(x)
ivCbrt(x0) ==
    (CHOOSE v_ \in {
      IF x.hi.neg THEN ivNeg(ivWiden(ivRoot(ivNeg(x), 3), LibraryBits))
      ELSE ivWiden(ivRoot(x, 3), LibraryBits)
      : x \in {x0} } : TRUE)

\* a * b and a^n for fixed-point numbers a, b >= 0, rounded up and down
fxMulUp(a, b) ==
    (CHOOSE v_ \in { IF bnLowLimbsZero(p, FxLimbs) THEN bnDropLimbs(p, FxLimbs)
                     ELSE bnAdd(bnDropLimbs(p, FxLimbs), <<1>>)
           : p \in {bnMul(a, b)} } : TRUE)
fxMulDown(a, b) == bnDropLimbs(bnMul(a, b), FxLimbs)

RECURSIVE fxPowUp(_, _)
fxPowUp(a0, n) ==
    IF n = 1 THEN a0
    ELSE IF n % 2 = 0
    THEN (CHOOSE v_ \in { fxMulUp(h, h) : h \in {fxPowUp(a0, n \div 2)} } : TRUE)
    ELSE fxMulUp(fxPowUp(a0, n - 1), a0)

RECURSIVE fxPowDown(_, _)
fxPowDown(a0, n) ==
    IF n = 1 THEN a0
    ELSE IF n % 2 = 0
    THEN (CHOOSE v_ \in { fxMulDown(h, h) : h \in {fxPowDown(a0, n \div 2)} } : TRUE)
    ELSE fxMulDown(fxPowDown(a0, n - 1), a0)

\* A number at or below the n-th root of the fixed-point number x >= 0, found
\* bit by bit on powers rounded up: st = [y, i] as in rootStep.
fxRootStep(st, x, n) ==
    (CHOOSE v_ \in {
      IF bnCmp(fxPowUp(t, n), x) <= 0 THEN [y |-> t, i |-> st.i - 1]
      ELSE [y |-> st.y, i |-> st.i - 1]
      : t \in {bnAdd(st.y, bnShl(<<1>>, st.i))} } : TRUE)

fxRootBelow(x0, n) ==
    (CHOOSE v_ \in {
      Loop(LAMBDA st : fxRootStep(st, x, n), LAMBDA st : st.i < 0,
           [y |-> <<>>, i |-> Max2(15 * FxLimbs, bnBitLen(x))], 6).y
      : x \in {x0} } : TRUE)

\* the least y0 + 2^j, j >= 0, whose n-th power rounded down is above x
fxRootAbove(y0, x0, n) ==
    (CHOOSE v_ \in {
      bnAdd(y0, Loop(LAMBDA st : [d |-> bnAdd(st.d, st.d)],
                     LAMBDA st : bnCmp(fxPowDown(bnAdd(y0, st.d), n), x) > 0,
                     [d |-> <<1>>], 6).d)
      : x \in {x0} } : TRUE)

\* the n-th root of an interval of numbers >= 0, on rounded powers
ivRootFx(x0, n) ==
    (CHOOSE v_ \in {
      (CHOOSE v_ \in { Iv(sInt(FALSE, y), sInt(FALSE, fxRootAbove(y, x.hi.a, n)))
             : y \in {IF x.lo.neg THEN <<>> ELSE fxRootBelow(x.lo.a, n)} } : TRUE)
      : x \in {x0} } : TRUE)

\* x ** 2.4 for x >= 0: the twelfth power of the fifth root
ivPow24(x) == ivWiden(ivPowInt(ivRootFx(x, 5), 12), LibraryBits)

\* x ** (1 / 2.4) for x >= 0: the fifth power of the twelfth root, the root
\* taken as the cube root of the square root of the square root
ivPowInv24(x) ==
    ivWiden(ivPowInt(ivRoot(ivRoot(ivRoot(x, 2), 2), 3), 5), LibraryBits)

(***************************************************************************)
(* colorUtils.ts (in src/src/core/worker.ts): sRGB and Oklab.              *)
(***************************************************************************)
\* the decimal constants of the source, each under the name of its digits
K0_4122214708 == ivDec(41222, 14708)
K0_5363325363 == ivDec(53633, 25363)
K0_0514459929 == ivDec(5144, 59929)
K0_2119034982 == ivDec(21190, 34982)
K0_6806995451 == ivDec(68069, 95451)
K0_1073969566 == ivDec(10739, 69566)
K0_0883024619 == ivDec(8830, 24619)
K0_2817188501 == ivDec(28171, 88501)
K0_6299787005 == ivDec(62997, 87005)
K0_2104542553 == ivDec(21045, 42553)
K0_793617785 == ivDec(79361, 77850)
K0_0040720468 == ivDec(407, 20468)
K1_9779984951 == ivDec(197799, 84951)
K2_428592205 == ivDec(242859, 22050)
K0_4505937099 == ivDec(45059, 37099)
K0_0259040371 == ivDec(2590, 40371)
K0_7827717662 == ivDec(78277, 17662)
K0_808675766 == ivDec(80867, 57660)
K0_3963377774 == ivDec(39633, 77774)
K0_2158037573 == ivDec(21580, 37573)
K0_1055613458 == ivDec(10556, 13458)
K0_0638541728 == ivDec(6385, 41728)
K0_0894841775 == ivDec(8948, 41775)
K1_291485548 == ivDec(129148, 55480)
K4_0767416621 == ivDec(407674, 16621)
K3_3077115913 == ivDec(330771, 15913)
K0_2309699292 == ivDec(23096, 99292)
K1_2684380046 == ivDec(126843, 80046)
K2_6097574011 == ivDec(260975, 74011)
K0_3413193965 == ivDec(34131, 93965)
K0_0041960863 == ivDec(419, 60863)
K0_7034186147 == ivDec(70341, 86147)
K1_707614701 == ivDec(170761, 47010)
K0_04045 == ivDec(4045, 0)
K0_055 == ivDec(5500, 0)
K0_0031308 == ivDec(313, 8000)

\* the whole number nearest to x + 1/2 from below: Math.round of a double in
\* x can be any of roundLo(x)..roundHi(x)
sToInt(x) == IF x.neg THEN -bnToInt(x.a) ELSE bnToInt(x.a)
fxHalf == sInt(FALSE, bnShr(fxInt(1).a, 1))
roundLo(x) == sToInt(sFloorFx(sAdd(x.lo, fxHalf)))
roundHi(x) == sToInt(sFloorFx(sAdd(x.hi, fxHalf)))

\* srgbToLinear(c): v <= 0.04045 ? v / 12.92 : ((v + 0.055) / 1.055) ** 2.4
srgbToLinear(c0) ==
    (CHOOSE v_ \in {
      IF ivSureLe(v, K0_04045)
      THEN ivDivInt(ivMul(v, ivInt(100)), 1292)
      ELSE IF ivSureGt(v, K0_04045)
      THEN ivPow24(ivDivInt(ivMul(ivAdd(v, K0_055), ivInt(1000)), 1055))
      ELSE ivHull(ivDivInt(ivMul(v, ivInt(100)), 1292),
                  ivPow24(ivDivInt(ivMul(ivAdd(v, K0_055), ivInt(1000)), 1055)))
      : v \in {ivDivInt(c0, 255)} } : TRUE)

linearToSrgbMutNoClamp(c0) ==
    (CHOOSE v_ \in { roundLo(t)..roundHi(t)
      : t \in {ivMul(IF ivSureLe(c0, K0_0031308)
                     THEN ivDivInt(ivMul(ivInt(1292), c0), 100)
                     ELSE ivSub(ivDivInt(ivMul(ivInt(1055), ivPowInv24(c0)), 1000),
                                K0_055),
                     ivInt(255))} } : TRUE)

\* linearToSrgb(c): the bytes Math.max(0, Math.min(255, Math.round(v * 255)))
\* can be, for v = c <= 0.0031308 ? 12.92 * c : 1.055 * c ** (1 / 2.4) - 0.055
linearToSrgb(c0) ==
    (CHOOSE v_ \in { {Max2(0, Min2(255, k)) : k \in roundLo(t)..roundHi(t)}
      : t \in {ivMul(IF ivSureLe(c0, K0_0031308)
                     THEN ivDivInt(ivMul(ivInt(1292), c0), 100)
                     ELSE IF ivSureGt(c0, K0_0031308)
                     THEN ivSub(ivDivInt(ivMul(ivInt(1055), ivPowInv24(c0)), 1000),
                                K0_055)
                     ELSE ivHull(ivDivInt(ivMul(ivInt(1292), c0), 100),
                                 ivSub(ivDivInt(ivMul(ivInt(1055), ivPowInv24(c0)),
                                                1000), K0_055)),
                     ivInt(255))} } : TRUE)

\* a * x + b * y + c * z, and a * x + b * y - c * z and so on, summed from
\* the left as the source writes them
lin3(a, x, b, y, c, z) == ivAdd(ivAdd(ivMul(a, x), ivMul(b, y)), ivMul(c, z))

\* rgbToOklab(rgb) for channels given as intervals
rgbToOklab(rgb) ==
    (CHOOSE v_ \in {
      (CHOOSE v_ \in {
        [L |-> lin3(K0_2104542553, l_, K0_793617785, m_, ivNeg(K0_0040720468), s_),
         a |-> lin3(K1_9779984951, l_, ivNeg(K2_428592205), m_, K0_4505937099, s_),
         b |-> lin3(K0_0259040371, l_, K0_7827717662, m_, ivNeg(K0_808675766), s_)]
        : l_ \in {ivCbrt(lin3(K0_4122214708, r, K0_5363325363, g, K0_0514459929, b))},
          m_ \in {ivCbrt(lin3(K0_2119034982, r, K0_6806995451, g, K0_1073969566, b))},
          s_ \in {ivCbrt(lin3(K0_0883024619, r, K0_2817188501, g, K0_6299787005, b))} } : TRUE)
      : r \in {srgbToLinear(rgb[1])}, g \in {srgbToLinear(rgb[2])},
        b \in {srgbToLinear(rgb[3])} } : TRUE)

\* the channels oklabToRgb(lab) can return: a set of bytes each
oklabToRgb(lab) ==
    (CHOOSE v_ \in {
      [r |-> linearToSrgb(lin3(K4_0767416621, l, ivNeg(K3_3077115913), m, K0_2309699292, s)),
       g |-> linearToSrgb(lin3(ivNeg(K1_2684380046), l, K2_6097574011, m, ivNeg(K0_3413193965), s)),
       b |-> linearToSrgb(lin3(ivNeg(K0_0041960863), l, ivNeg(K0_7034186147), m, K1_707614701, s))]
      : l \in {ivPowInt(ivAdd(ivAdd(lab.L, ivMul(K0_3963377774, lab.a)), ivMul(K0_2158037573, lab.b)), 3)},
        m \in {ivPowInt(ivSub(ivSub(lab.L, ivMul(K0_1055613458, lab.a)), ivMul(K0_0638541728, lab.b)), 3)},
        s \in {ivPowInt(ivSub(ivSub(lab.L, ivMul(K0_0894841775, lab.a)), ivMul(K1_291485548, lab.b)), 3)}
      } : TRUE)

(***************************************************************************)
(* ops.ts: getPixel clamps the coordinates, setPixel drops writes outside. *)
(***************************************************************************)
getPixel(img, x, y) ==
    LET clampedX == Min2(img.width - 1, Max2(0, x))
        clampedY == Min2(img.height - 1, Max2(0, y))
    IN  img.data[clampedY * img.width + clampedX + 1]

setPixelMutHalfAlpha(img, x, y, px) ==
    IF x < 0 \/ y < 0 \/ x >= img.width \/ y >= img.height
    THEN img
    ELSE [img EXCEPT !.data[y * img.width + x + 1] =
             <<px[1], px[2], px[3], @[4] \div 2>>]

setPixel(img, x, y, px) ==
    IF x < 0 \/ y < 0 \/ x >= img.width \/ y >= img.height
    THEN img
    ELSE [img EXCEPT !.data[y * img.width + x + 1] = px]

(***************************************************************************)
(* floodfill.ts                                                            *)
(***************************************************************************)
withinToleranceMutR(a, b, tol) == Abs(a[1] - b[1]) <= tol

withinTolerance(a, b, tol) ==
    /\ Abs(a[1] - b[1]) <= tol
    /\ Abs(a[2] - b[2]) <= tol
    /\ Abs(a[3] - b[3]) <= tol

\* One iteration of the while loop of floodFillTransparent: the stack is
\* popped from its end; visited is the Uint8Array (one entry per pixel).
\* st = [img, visited, stack]
floodStep(st, target, tolerance) ==
    LET img == st.img
        top == st.stack[Len(st.stack)]
        rest == SubSeq(st.stack, 1, Len(st.stack) - 1)
        x == top[1]
        y == top[2]
        idx == y * img.width + x
        vis2 == [st.visited EXCEPT ![idx + 1] = 1]
        currentPx == getPixel(img, x, y)
    IN  IF st.visited[idx + 1] = 1
        THEN [st EXCEPT !.stack = rest]
        ELSE IF ~withinTolerance(currentPx, target, tolerance)
        THEN [img |-> img, visited |-> vis2, stack |-> rest]
        ELSE IF currentPx[4] = 0
        THEN [img |-> img, visited |-> vis2, stack |-> rest]
        ELSE [img |-> setPixel(img, x, y,
                        <<currentPx[1], currentPx[2], currentPx[3], 0>>),
              visited |-> vis2,
              stack |-> rest
                 \o (IF x > 0 THEN <<(<<x - 1, y>>)>> ELSE <<>>)
                 \o (IF x < img.width - 1 THEN <<(<<x + 1, y>>)>> ELSE <<>>)
                 \o (IF y > 0 THEN <<(<<x, y - 1>>)>> ELSE <<>>)
                 \o (IF y < img.height - 1 THEN <<(<<x, y + 1>>)>> ELSE <<>>)]

\* while (stack.length > 0): up to 2^k iterations, run as two halves of
\* 2^(k-1) so that the evaluation nests k deep and not once per iteration.
RECURSIVE floodLoop(_, _, _, _)
floodLoop(st0, target, tolerance, k) ==
    IF k = 0
    THEN CHOOSE r \in { IF st.stack = <<>> THEN st
                        ELSE floodStep(st, target, tolerance)
                        : st \in {st0} } : TRUE
    ELSE CHOOSE r \in { IF mid.stack = <<>> THEN mid
                        ELSE floodLoop(mid, target, tolerance, k - 1)
                        : mid \in {floodLoop(st0, target, tolerance, k - 1)} } : TRUE

\* floodFillTransparent(img, startX, startY, tolerance, visitedExternal):
\* the bitmap and the visited array it leaves.  Every pixel is marked
\* visited at its first pop and pushes at most four entries, so the loop
\* ends within 4*width*height + 1 iterations.
floodFillTransparent(img, startX, startY, tolerance, visited) ==
    IF startX < 0 \/ startY < 0 \/ startX >= img.width \/ startY >= img.height
    THEN [img |-> img, visited |-> visited]
    ELSE (CHOOSE v_ \in { [img |-> st.img, visited |-> st.visited] : st \in {
           floodLoop([img |-> img, visited |-> visited,
                      stack |-> <<(<<startX, startY>>)>>],
                     getPixel(img, startX, startY), tolerance,
                     Log2Ceil(4 * img.width * img.height + 1))} } : TRUE)

\* new Uint8Array(img.width * img.height)
freshVisited(img) == [i \in 1..(img.width * img.height) |-> 0]

(***************************************************************************)
(* Specification SpecFlood: one call of floodFillTransparent with a fresh  *)
(* visited set, on every small bitmap, seed and tolerance.                 *)
(***************************************************************************)
\* Pixel values of the flood-fill inputs: a colour, a colour 4 away from it
\* in one channel, the colour with alpha 0.
FloodPixels == {<<10, 10, 10, 255>>, <<10, 14, 10, 128>>, <<10, 10, 10, 0>>}
FloodTolerances == {0, 4}

InitFlood ==
    /\ \E im \in ImagesOver(Shapes, FloodPixels) :
       \E x \in -1..im.width, y \in -1..im.height, t \in FloodTolerances :
          call = [fn |-> "floodFillTransparent", img |-> im,
                  startX |-> x, startY |-> y, tolerance |-> t]
    /\ ret = Pending
    /\ FnOnly

CallFloodFill ==
    /\ call.fn = "floodFillTransparent"
    /\ ret = Pending
    /\ \E r \in {floodFillTransparent(call.img, call.startX, call.startY,
                                       call.tolerance, freshVisited(call.img))} :
          ret' = [status |-> "done", img |-> r.img]
    /\ UNCHANGED <<call, procVars>>

NextFlood == CallFloodFill

SpecFlood == InitFlood /\ [][NextFlood]_vars

(***************************************************************************)
(* C10: what one flood fill with a fresh visited set does.                 *)
(***************************************************************************)
\* Pixel indexes (0-based) of a bitmap, and the 4-neighbourhood on them.
PixelIdx(img) == 0..(img.width * img.height - 1)
Adjacent4(img, p, q) ==
    LET px == p % img.width
        py == p \div img.width
        qx == q % img.width
        qy == q \div img.width
    IN  Abs(px - qx) + Abs(py - qy) = 1

\* Pixels the fill may pass through: alpha non-zero, each of R, G and B
\* within tol of the seed pixel's.
Passable(img, seedPx, tol, p) ==
    LET c == img.data[p + 1]
    IN  /\ c[4] # 0
        /\ \A k \in 1..3 : c[k] - seedPx[k] <= tol /\ seedPx[k] - c[k] <= tol

\* The pixels joined to a set by paths of 4-neighbour steps through ok.
RECURSIVE Closure4(_, _, _)
Closure4(img, ok, S) ==
    LET T == S \cup {q \in ok : \E p \in S : Adjacent4(img, p, q)}
    IN  IF T = S THEN S ELSE Closure4(img, ok, T)

\* The seed's region: empty when the seed is outside the bitmap or is not
\* itself passable.
SeedRegion(img, x0, y0, tol) ==
    IF x0 < 0 \/ y0 < 0 \/ x0 >= img.width \/ y0 >= img.height THEN {}
    ELSE LET seed == y0 * img.width + x0
             ok == {p \in PixelIdx(img) :
                        Passable(img, img.data[seed + 1], tol, p)}
         IN  IF seed \in ok THEN Closure4(img, ok, {seed}) ELSE {}

FloodRegion == SeedRegion(call.img, call.startX, call.startY, call.tolerance)

\* C10: after floodFillTransparent with a fresh visited set, a pixel has
\* alpha 0 iff it had alpha 0 before or lies in the seed's 4-connected region
\* of passable pixels; RGB bytes and all other alpha bytes are unchanged
\* (so a seed outside the bitmap changes nothing).
C10_FloodFillsSeedRegion ==
    (call.fn = "floodFillTransparent" /\ ret.status = "done") =>
        /\ ret.img.width = call.img.width
        /\ ret.img.height = call.img.height
        /\ \A p \in PixelIdx(call.img) :
            LET b == call.img.data[p + 1]
                a == ret.img.data[p + 1]
            IN  /\ a[1] = b[1] /\ a[2] = b[2] /\ a[3] = b[3]
                /\ a[4] = (IF p \in FloodRegion THEN 0 ELSE b[4])
                /\ (a[4] = 0) <=> (b[4] = 0 \/ p \in FloodRegion)

\* A fill that cleared a region of three pixels or more and left alone a
\* passable pixel that touches the region only diagonally.
C10_Witness ==
    /\ call.fn = "floodFillTransparent"
    /\ ret.status = "done"
    /\ Cardinality(FloodRegion) >= 3
    /\ \E p \in PixelIdx(call.img) \ FloodRegion :
        /\ Passable(call.img, getPixel(call.img, call.startX, call.startY),
                    call.tolerance, p)
        /\ ret.img.data[p + 1][4] # 0
        /\ \E q \in FloodRegion :
              Abs((p % call.img.width) - (q % call.img.width)) = 1
              /\ Abs((p \div call.img.width) - (q \div call.img.width)) = 1

(***************************************************************************)
(* Specification SpecFloodTwice: floodFillTransparent, then the same call  *)
(* again (same seed and tolerance, a fresh visited set) on the bitmap the  *)
(* first call left.                                                        *)
(***************************************************************************)
CallFloodFillAgain ==
    /\ call.fn = "floodFillTransparent"
    /\ ret.status = "done"
    /\ \E r \in {floodFillTransparent(ret.img, call.startX, call.startY,
                                       call.tolerance, freshVisited(ret.img))} :
          ret' = [status |-> "twice", img |-> ret.img, again |-> r.img]
    /\ UNCHANGED <<call, procVars>>

NextFloodTwice == CallFloodFill \/ CallFloodFillAgain

SpecFloodTwice == InitFlood /\ [][NextFloodTwice]_vars

\* C11: flood fill is idempotent: the second run with the same seed and
\* tolerance and a fresh visited set leaves every byte of the first run's
\* output, the alpha bytes in particular, unchanged.
C11_FloodFillIdempotent ==
    ret.status = "twice" =>
        /\ ret.again.width = ret.img.width
        /\ ret.again.height = ret.img.height
        /\ \A p \in PixelIdx(ret.img) : ret.again.data[p + 1] = ret.img.data[p + 1]

\* A second run after a first run that cleared two pixels or more and left
\* a pixel with alpha beside the cleared region.
C11_Witness ==
    /\ ret.status = "twice"
    /\ Cardinality(FloodRegion) >= 2
    /\ \E p \in PixelIdx(call.img) \ FloodRegion :
          /\ ret.img.data[p + 1][4] # 0
          /\ \E q \in FloodRegion : Adjacent4(call.img, p, q)

(***************************************************************************)
(* processor.ts: removeSmallFloatingComponentsInPlace                      *)
(***************************************************************************)
\* isOpaque(p) of the component scan
isOpaqueMutNonZero(masked, alphaThreshold, p) == masked.data[p + 1][4] > 0

isOpaque(masked, alphaThreshold, p) == masked.data[p + 1][4] >= alphaThreshold

\* The inner while loop: one component is walked from its first pixel.
\* c = [queue, visited, size, pixels, storing]; queue.pop() takes the end.
componentWalkStep(masked, alphaThreshold, maxPixels, c) ==
    LET w == masked.width
        h == masked.height
        cur == c.queue[Len(c.queue)]
        q0 == SubSeq(c.queue, 1, Len(c.queue) - 1)
        pushed == c.pixels \o <<cur>>
        over == c.storing /\ Len(pushed) > maxPixels
        pixels1 == IF ~c.storing THEN c.pixels
                   ELSE IF over THEN <<>> ELSE pushed
        x == cur % w
        y == cur \div w
        \* a neighbour is pushed when it is unvisited and opaque; the four
        \* neighbours are distinct pixels, so each test reads the visited
        \* array as it was when cur was popped
        new(p2) == c.visited[p2 + 1] = 0 /\ isOpaque(masked, alphaThreshold, p2)
        t1 == x > 0 /\ new(cur - 1)
        t2 == x + 1 < w /\ new(cur + 1)
        t3 == y > 0 /\ new(cur - w)
        t4 == y + 1 < h /\ new(cur + w)
        marked == (IF t1 THEN {cur - 1} ELSE {}) \cup (IF t2 THEN {cur + 1} ELSE {})
                  \cup (IF t3 THEN {cur - w} ELSE {})
                  \cup (IF t4 THEN {cur + w} ELSE {})
    IN  [queue |-> q0 \o (IF t1 THEN <<cur - 1>> ELSE <<>>)
                      \o (IF t2 THEN <<cur + 1>> ELSE <<>>)
                      \o (IF t3 THEN <<cur - w>> ELSE <<>>)
                      \o (IF t4 THEN <<cur + w>> ELSE <<>>),
         visited |-> SubSeq([i \in DOMAIN c.visited |->
                               IF (i - 1) \in marked THEN 1 ELSE c.visited[i]],
                            1, Len(c.visited)),
         size |-> c.size + 1,
         pixels |-> pixels1,
         storing |-> c.storing /\ ~over]

\* while (queue.length > 0): a pixel is marked when it is pushed, so the
\* loop pops at most width*height pixels
componentWalk(masked, alphaThreshold, maxPixels, c0) ==
    Loop(LAMBDA c : componentWalkStep(masked, alphaThreshold, maxPixels, c),
         LAMBDA c : c.queue = <<>>,
         c0, Log2Ceil(masked.width * masked.height))

\* if (size > largestSize) of the scan: which component is "the largest"
keepsAsLargestMutLast(size, largestSize) == size >= largestSize

keepsAsLargestMutNever(size, largestSize) == FALSE

keepsAsLargest(size, largestSize) == size > largestSize

\* One pass of the scan for (let p = 0; p < n; p += 1).
\* st = [p, visited, compId, largestId, largestSize, small]
componentScanStep(masked, alphaThreshold, maxPixels, st) ==
    IF st.visited[st.p + 1] = 1 THEN [st EXCEPT !.p = st.p + 1]
    ELSE IF ~isOpaque(masked, alphaThreshold, st.p) THEN [st EXCEPT !.p = st.p + 1]
    ELSE
      (CHOOSE v_ \in {
        LET id == st.compId + 1
            larger == keepsAsLargest(c.size, st.largestSize)
        IN  [p |-> st.p + 1,
             visited |-> c.visited,
             compId |-> id,
             largestId |-> IF larger THEN id ELSE st.largestId,
             largestSize |-> IF larger THEN c.size ELSE st.largestSize,
             small |-> IF c.size <= maxPixels /\ Len(c.pixels) > 0
                       THEN st.small \o
                            <<[id |-> id, pixels |-> c.pixels, size |-> c.size]>>
                       ELSE st.small]
        : c \in {componentWalk(masked, alphaThreshold, maxPixels,
                   [queue |-> <<st.p>>,
                    visited |-> [st.visited EXCEPT ![st.p + 1] = 1],
                    size |-> 0, pixels |-> <<>>, storing |-> TRUE])}} : TRUE)

componentScan(masked, alphaThreshold, maxPixels, st0) ==
    Loop(LAMBDA st : componentScanStep(masked, alphaThreshold, maxPixels, st),
         LAMBDA st : st.p >= masked.width * masked.height,
         st0, Log2Ceil(masked.width * masked.height))

\* alpha := 0 at the listed pixels
clearAlphaAt(data, pixels) ==
    LET at == {pixels[i] + 1 : i \in DOMAIN pixels}
    IN  SubSeq([i \in DOMAIN data |->
                   IF i \in at THEN [data[i] EXCEPT ![4] = 0] ELSE data[i]],
               1, Len(data))

\* One pass of the removal loop over small.
\* r = [i, working, masked, removedComponents, removedPixels]
removeSmallStep(small, largestId, r) ==
    LET comp == small[r.i]
    IN  IF comp.id = largestId THEN [r EXCEPT !.i = r.i + 1]
        ELSE [i |-> r.i + 1,
              working |-> [r.working EXCEPT !.data =
                               clearAlphaAt(r.working.data, comp.pixels)],
              masked |-> [r.masked EXCEPT !.data =
                               clearAlphaAt(r.masked.data, comp.pixels)],
              removedComponents |-> r.removedComponents + 1,
              removedPixels |-> r.removedPixels + comp.size]

removeSmall(small, largestId, r0) ==
    Loop(LAMBDA r : removeSmallStep(small, largestId, r),
         LAMBDA r : r.i > Len(small),
         r0, Log2Ceil(Max2(1, Len(small))))

\* removeSmallFloatingComponentsInPlace(working, masked, alphaThreshold,
\* maxPixels): the two bitmaps as the call leaves them, the two counts, and
\* threw = TRUE for the size-mismatch error.
removeSmallFloatingComponentsInPlace(working, masked, alphaThreshold, maxPixels) ==
    IF maxPixels <= 0
    THEN [threw |-> FALSE, working |-> working, masked |-> masked,
          removedComponents |-> 0, removedPixels |-> 0]
    ELSE IF working.width # masked.width \/ working.height # masked.height
    THEN [threw |-> TRUE, working |-> working, masked |-> masked,
          removedComponents |-> 0, removedPixels |-> 0]
    ELSE
      (CHOOSE v_ \in {
        (CHOOSE v_ \in {
          [threw |-> FALSE, working |-> r.working, masked |-> r.masked,
           removedComponents |-> r.removedComponents,
           removedPixels |-> r.removedPixels]
          : r \in {removeSmall(st.small, st.largestId,
                     [i |-> 1, working |-> working, masked |-> masked,
                      removedComponents |-> 0, removedPixels |-> 0])}} : TRUE)
        : st \in {componentScan(masked, alphaThreshold, maxPixels,
                    [p |-> 0,
                     visited |-> [i \in 1..(masked.width * masked.height) |-> 0],
                     compId |-> 0, largestId |-> -1, largestSize |-> 0,
                     small |-> <<>>])}} : TRUE)

(***************************************************************************)
(* Specification SpecFloating: one call of                                 *)
(* removeSmallFloatingComponentsInPlace on every small working/mask pair.  *)
(***************************************************************************)
\* A pixel of the pair (working, mask): content kept by the mask, content the
\* mask has cleared, faint content (alpha 8) kept by the mask.
FloatPixelPairs ==
    {<<(<<200, 100, 50, 255>>), (<<200, 100, 50, 255>>)>>,
     <<(<<30, 30, 30, 255>>), (<<30, 30, 30, 0>>)>>,
     <<(<<200, 100, 50, 8>>), (<<200, 100, 50, 8>>)>>}
FloatThresholds == {1, 16}

\* A working bitmap whose size differs from the mask's.
OtherSize(m) ==
    [width |-> m.width + 1, height |-> m.height,
     data |-> [i \in 1..((m.width + 1) * m.height) |-> <<30, 30, 30, 255>>]]

InitFloating ==
    /\ \E pm \in ImagesOver(Shapes, FloatPixelPairs) :
       \E t \in FloatThresholds, mp \in -1..MaxPixels, sameSize \in BOOLEAN :
          LET m == [pm EXCEPT !.data = [i \in DOMAIN pm.data |-> pm.data[i][2]]]
              w == [pm EXCEPT !.data = [i \in DOMAIN pm.data |-> pm.data[i][1]]]
          IN  call = [fn |-> "removeSmallFloatingComponentsInPlace",
                      working |-> IF sameSize THEN w ELSE OtherSize(m),
                      masked |-> m, alphaThreshold |-> t, maxPixels |-> mp]
    /\ ret = Pending
    /\ FnOnly

CallRemoveFloating ==
    /\ call.fn = "removeSmallFloatingComponentsInPlace"
    /\ ret = Pending
    /\ \E r \in {removeSmallFloatingComponentsInPlace(
                    call.working, call.masked, call.alphaThreshold, call.maxPixels)} :
          ret' = [status |-> IF r.threw THEN "threw" ELSE "done",
                   working |-> r.working, masked |-> r.masked,
                   removedComponents |-> r.removedComponents,
                   removedPixels |-> r.removedPixels]
    /\ UNCHANGED <<call, procVars>>

NextFloating == CallRemoveFloating

SpecFloating == InitFloating /\ [][NextFloating]_vars

\* The 4-connected components of the mask pixels with alpha >= threshold.
OpaqueSet(m, thr) == {p \in PixelIdx(m) : m.data[p + 1][4] >= thr}
ComponentsOf(m, thr) ==
    {Closure4(m, OpaqueSet(m, thr), {p}) : p \in OpaqueSet(m, thr)}
SetMin(S) == CHOOSE v \in S : \A u \in S : v <= u
\* The maximum-size component met first in row-major order (the one holding
\* the smallest pixel index); {} when the mask has no opaque pixel.
FirstLargest(m, thr) ==
    LET cs == ComponentsOf(m, thr)
        big == {c \in cs : \A d \in cs : Cardinality(d) <= Cardinality(c)}
    IN  IF cs = {} THEN {}
        ELSE CHOOSE c \in big : \A d \in big : SetMin(c) <= SetMin(d)
\* The components the call is to erase.
ToErase(m, thr, maxPixels) ==
    {c \in ComponentsOf(m, thr) :
        Cardinality(c) <= maxPixels /\ c # FirstLargest(m, thr)}

FloatingReturned ==
    call.fn = "removeSmallFloatingComponentsInPlace" /\ ret.status = "done"

\* C8: every pixel of the first maximum-size component keeps its alpha in
\* the mask and in the working bitmap, also when the component is no larger
\* than maxPixels.
C8_LargestComponentPreserved ==
    FloatingReturned =>
        \A p \in FirstLargest(call.masked, call.alphaThreshold) :
            /\ ret.masked.data[p + 1][4] = call.masked.data[p + 1][4]
            /\ ret.working.data[p + 1][4] = call.working.data[p + 1][4]

\* The largest component is small enough to be a removal candidate, another
\* component of the same size was erased.
C8_Witness ==
    /\ FloatingReturned
    /\ LET big == FirstLargest(call.masked, call.alphaThreshold)
       IN  /\ big # {}
           /\ Cardinality(big) <= call.maxPixels
           /\ \E c \in ToErase(call.masked, call.alphaThreshold, call.maxPixels) :
                 /\ Cardinality(c) = Cardinality(big)
                 /\ \A p \in c : ret.masked.data[p + 1][4] = 0

\* C9: alpha becomes 0, in the mask and in the working bitmap, at exactly the
\* pixels of the components of size <= maxPixels other than the preserved
\* one; every other byte of both is unchanged; the two counts are the number
\* of erased components and of erased pixels (0 and 0, and no change, when
\* maxPixels <= 0).
C9_ErasesExactlySmallComponents ==
    FloatingReturned =>
        LET erase == ToErase(call.masked, call.alphaThreshold, call.maxPixels)
            gone == UNION erase
        IN  /\ \A p \in PixelIdx(call.masked) :
                 /\ ret.masked.data[p + 1] =
                        IF p \in gone
                        THEN [call.masked.data[p + 1] EXCEPT ![4] = 0]
                        ELSE call.masked.data[p + 1]
                 /\ ret.working.data[p + 1] =
                        IF p \in gone
                        THEN [call.working.data[p + 1] EXCEPT ![4] = 0]
                        ELSE call.working.data[p + 1]
            /\ ret.masked.width = call.masked.width
            /\ ret.masked.height = call.masked.height
            /\ ret.working.width = call.working.width
            /\ ret.working.height = call.working.height
            /\ ret.removedComponents = Cardinality(erase)
            /\ ret.removedPixels = Cardinality(gone)
            /\ call.maxPixels <= 0 =>
                 /\ ret.masked = call.masked
                 /\ ret.working = call.working
                 /\ ret.removedComponents = 0
                 /\ ret.removedPixels = 0

\* Two components were erased, an erased pixel touches a surviving opaque
\* pixel diagonally, and a pixel below the threshold kept its non-zero alpha.
C9_Witness ==
    /\ FloatingReturned
    /\ ret.removedComponents >= 2
    /\ \E r \in PixelIdx(call.masked) :
          /\ call.masked.data[r + 1][4] > 0
          /\ call.masked.data[r + 1][4] < call.alphaThreshold
          /\ ret.masked.data[r + 1][4] = call.masked.data[r + 1][4]
    /\ \E p, q \in PixelIdx(call.masked) :
          /\ call.masked.data[p + 1][4] >= call.alphaThreshold
          /\ ret.masked.data[p + 1][4] = 0
          /\ ret.masked.data[q + 1][4] >= call.alphaThreshold
          /\ Abs((p % call.masked.width) - (q % call.masked.width)) = 1
          /\ Abs((p \div call.masked.width) - (q \div call.masked.width)) = 1

(***************************************************************************)
(* Buffers.  processImage passes bitmaps by reference and some stages      *)
(* write in place, so the pipeline is modelled over a heap: mem[b] is the  *)
(* content of the Uint8ClampedArray b, and a bitmap reference is a record  *)
(* [width, height, buf].  A buffer is named after the place that allocates *)
(* it (each allocation of processImage runs at most once per call); the    *)
(* caller's bitmap is in buffer "input".                                   *)
(***************************************************************************)
Img(mem, ref) == [width |-> ref.width, height |-> ref.height, data |-> mem[ref.buf]]

\* new Uint8ClampedArray(n) filled: the array holds its elements as values,
\* not the expression that computes them
Uint8ClampedArray(data) == SubSeq(data, 1, Len(data))

Store(mem, ref, data) == (ref.buf :> Uint8ClampedArray(data)) @@ mem

\* a bitmap value placed in a fresh buffer
Alloc(mem, site, img) ==
    [mem |-> (site :> Uint8ClampedArray(img.data)) @@ mem,
     img |-> [width |-> img.width, height |-> img.height, buf |-> site]]

cloneImageMutShare(mem, img, site) == [mem |-> mem, img |-> img]

\* outline.ts: cloneImage copies the bytes into a new Uint8ClampedArray
cloneImage(mem, img, site) ==
    [mem |-> (site :> mem[img.buf]) @@ mem,
     img |-> [width |-> img.width, height |-> img.height, buf |-> site]]

(***************************************************************************)
(* Strings are sequences of one-character strings.  parseInt(s, 16) reads  *)
(* the longest prefix of hexadecimal digits and is NaN without one; a      *)
(* number that may be NaN is a record [nan, v].                            *)
(***************************************************************************)
HexDigits ==
    <<"0", "1", "2", "3", "4", "5", "6", "7", "8", "9",
      "a", "b", "c", "d", "e", "f">>
HexDigitsUpper == <<"A", "B", "C", "D", "E", "F">>

isHexDigit(c) ==
    (\E i \in 1..16 : HexDigits[i] = c) \/ (\E i \in 1..6 : HexDigitsUpper[i] = c)

hexDigitValue(c) ==
    IF \E i \in 1..16 : HexDigits[i] = c
    THEN (CHOOSE i \in 1..16 : HexDigits[i] = c) - 1
    ELSE (CHOOSE i \in 1..6 : HexDigitsUpper[i] = c) + 9

Number(v) == [nan |-> FALSE, v |-> v]
NaN == [nan |-> TRUE, v |-> 0]

parseInt16(s) ==
    LET k == SetMax({n \in 0..Len(s) : \A i \in 1..n : isHexDigit(s[i])})
        val[i \in 0..k] == IF i = 0 THEN 0 ELSE val[i - 1] * 16 + hexDigitValue(s[i])
    IN  IF k = 0 THEN NaN ELSE Number(val[k])

\* s.replace("#", ""): the first "#" removed
replaceHash(s) ==
    IF \E i \in 1..Len(s) : s[i] = "#"
    THEN LET i == CHOOSE j \in 1..Len(s) : s[j] = "#" /\ \A l \in 1..(j - 1) : s[l] # "#"
         IN  SubSeq(s, 1, i - 1) \o SubSeq(s, i + 1, Len(s))
    ELSE s

\* s.substring(from, to), 0 <= from <= to
substring(s, from, to) == SubSeq(s, Min2(from, Len(s)) + 1, Min2(to, Len(s)))

\* the [r, g, b] a bgRgb string such as "#c83c0a" stands for
parseBgRgb(bgRgb) ==
    LET hex == replaceHash(bgRgb)
    IN  <<parseInt16(substring(hex, 0, 2)),
          parseInt16(substring(hex, 2, 4)),
          parseInt16(substring(hex, 4, 6))>>

\* Math.abs(p - t) <= tolerance for a byte p and a possibly-NaN t
nearChannel(p, t, tolerance) == ~t.nan /\ Abs(p - t.v) <= tolerance

nearColor(px, target, tolerance) ==
    /\ nearChannel(px[1], target[1], tolerance)
    /\ nearChannel(px[2], target[2], tolerance)
    /\ nearChannel(px[3], target[3], tolerance)

(***************************************************************************)
(* outline.ts: background removal.                                         *)
(***************************************************************************)
\* One pixel of the scan of the "rgb" method: st = [out, visited, idx]; src
\* is the bitmap the scan reads, out the copy the flood fills write.
rgbScanStep(st, src, target, tolerance) ==
    LET x == st.idx % src.width
        y == st.idx \div src.width
        after ==
            IF /\ nearColor(src.data[st.idx + 1], target, tolerance)
               /\ st.out.data[st.idx + 1][4] # 0
            THEN floodFillTransparent(st.out, x, y, tolerance, st.visited)
            ELSE [img |-> st.out, visited |-> st.visited]
    IN  IF st.visited[st.idx + 1] # 0
        THEN [st EXCEPT !.idx = st.idx + 1]
        ELSE (CHOOSE v_ \in { [out |-> a.img,
                     visited |-> [a.visited EXCEPT ![st.idx + 1] = 1],
                     idx |-> st.idx + 1] : a \in {after} } : TRUE)

\* The corner a method floods from (none for a method that names no corner).
cornersOf(method, w, h) ==
    IF method = "top-left" THEN <<(<<0, 0>>)>>
    ELSE IF method = "bottom-left" THEN <<(<<0, h - 1>>)>>
    ELSE IF method = "top-right" THEN <<(<<w - 1, 0>>)>>
    ELSE IF method = "bottom-right" THEN <<(<<w - 1, h - 1>>)>>
    ELSE <<>>

removeBackgroundByFloodFill(mem, img, tolerance, method, bgRgb, site) ==
    IF method = "none" THEN cloneImage(mem, img, site)
    ELSE
      (CHOOSE v_ \in {
        LET src == Img(mem, img)
            out == Img(c.mem, c.img)
            n == img.width * img.height
            corners == cornersOf(method, img.width, img.height)
            filled ==
              IF method = "rgb" /\ bgRgb # <<>>
              THEN (CHOOSE v_ \in {
                     Loop(LAMBDA st : rgbScanStep(st, src, target, tolerance),
                          LAMBDA st : st.idx >= n,
                          [out |-> out, visited |-> freshVisited(out), idx |-> 0],
                          Log2Ceil(n)).out
                     : target \in {parseBgRgb(bgRgb)} } : TRUE)
              ELSE IF corners = <<>> THEN out
              ELSE floodFillTransparent(out, corners[1][1], corners[1][2],
                                        tolerance, freshVisited(out)).img
        IN  [mem |-> Store(c.mem, c.img, filled.data), img |-> c.img]
        : c \in {cloneImage(mem, img, site)} } : TRUE)

\* the pass over the whole bitmap that clears every pixel near a target
clearNearTargets(data, bgTargets, tolerance) ==
    [p \in 1..Len(data) |->
        IF /\ data[p][4] # 0
           /\ \E t \in 1..Len(bgTargets) : nearColor(data[p], bgTargets[t], tolerance)
        THEN <<data[p][1], data[p][2], data[p][3], 0>>
        ELSE data[p]]

removeBackground(mem, img, tolerance, removeInnerBackground, bgTargets,
                 method, bgRgb, site) ==
    IF method = "none" THEN cloneImage(mem, img, site)
    ELSE
      (CHOOSE v_ \in {
        IF ~removeInnerBackground THEN out
        ELSE IF bgTargets = <<>> THEN out
        ELSE [mem |-> Store(out.mem, out.img,
                            clearNearTargets(out.mem[out.img.buf], bgTargets,
                                             tolerance)),
              img |-> out.img]
        : out \in {removeBackgroundByFloodFill(mem, img, tolerance, method,
                                               bgRgb, site)} } : TRUE)

\* The colours to clear everywhere: the given colour, or the colour of the
\* method's corner if that pixel is opaque enough.
getBackgroundTargets(img, method, bgRgb, alphaThreshold) ==
    IF method = "none" THEN <<>>
    ELSE IF method = "rgb" /\ bgRgb # <<>> THEN <<parseBgRgb(bgRgb)>>
    ELSE
      LET points == cornersOf(method, img.width, img.height)
      IN  IF points = <<>> THEN <<>>
          ELSE LET px == img.data[points[1][2] * img.width + points[1][1] + 1]
               IN  IF px[4] < alphaThreshold THEN <<>>
                   ELSE <<(<<Number(px[1]), Number(px[2]), Number(px[3])>>)>>

(***************************************************************************)
(* outline.ts: findOpaqueBounds and cropRawImage.                          *)
(***************************************************************************)
NoBounds == [found |-> FALSE]

\* One pixel of the scan, rows from the top, each row left to right:
\* st = [p, minX, minY, maxX, maxY]
boundsStepMutFirstHit(st, img, alphaThreshold) ==
    LET x == st.p % img.width
        y == st.p \div img.width
        hit == img.data[st.p + 1][4] >= alphaThreshold /\ st.maxX < 0
    IN  [p |-> st.p + 1,
         minX |-> IF hit /\ x < st.minX THEN x ELSE st.minX,
         minY |-> IF hit /\ y < st.minY THEN y ELSE st.minY,
         maxX |-> IF hit /\ x > st.maxX THEN x ELSE st.maxX,
         maxY |-> IF hit /\ y > st.maxY THEN y ELSE st.maxY]

boundsStep(st, img, alphaThreshold) ==
    LET x == st.p % img.width
        y == st.p \div img.width
        hit == img.data[st.p + 1][4] >= alphaThreshold
    IN  [p |-> st.p + 1,
         minX |-> IF hit /\ x < st.minX THEN x ELSE st.minX,
         minY |-> IF hit /\ y < st.minY THEN y ELSE st.minY,
         maxX |-> IF hit /\ x > st.maxX THEN x ELSE st.maxX,
         maxY |-> IF hit /\ y > st.maxY THEN y ELSE st.maxY]

findOpaqueBounds(img, alphaThreshold) ==
    (CHOOSE v_ \in {
      IF st.maxX < st.minX \/ st.maxY < st.minY THEN NoBounds
      ELSE [found |-> TRUE, x |-> st.minX, y |-> st.minY,
            w |-> st.maxX - st.minX + 1, h |-> st.maxY - st.minY + 1]
      : st \in {Loop(LAMBDA t : boundsStep(t, img, alphaThreshold),
                     LAMBDA t : t.p >= img.width * img.height,
                     [p |-> 0, minX |-> img.width, minY |-> img.height,
                      maxX |-> -1, maxY |-> -1],
                     Log2Ceil(Max2(1, img.width * img.height)))} } : TRUE)

(***************************************************************************)
(* Specification SpecBounds: one call of findOpaqueBounds on every small   *)
(* bitmap whose pixels are clear, faint or opaque, with a threshold that   *)
(* every pixel meets (0), that opaque pixels alone meet (16), or that no   *)
(* pixel meets (256).                                                      *)
(***************************************************************************)
BoundsPixels == {<<0, 0, 0, 0>>, <<9, 9, 9, 15>>, <<9, 9, 9, 255>>}
BoundsThresholds == {0, 16, 256}

InitBounds ==
    /\ \E im \in ImagesOver(Shapes, BoundsPixels), t \in BoundsThresholds :
          call = [fn |-> "findOpaqueBounds", img |-> im, alphaThreshold |-> t]
    /\ ret = Pending
    /\ FnOnly

CallFindOpaqueBounds ==
    /\ call.fn = "findOpaqueBounds"
    /\ ret = Pending
    /\ ret' = [status |-> "done",
               bounds |-> findOpaqueBounds(call.img, call.alphaThreshold)]
    /\ UNCHANGED <<call, procVars>>

NextBounds == CallFindOpaqueBounds

SpecBounds == InitBounds /\ [][NextBounds]_vars

\* the pixels (0-based indexes) with alpha >= threshold
AtOrAbove(img, threshold) ==
    {p \in PixelIdx(img) : img.data[p + 1][4] >= threshold}

\* C12: findOpaqueBounds returns null exactly when no pixel has
\* alpha >= threshold; otherwise x and y are the least column and row of
\* such pixels and w, h reach exactly to their greatest column and row.
C12_TightestBounds ==
    (call.fn = "findOpaqueBounds" /\ ret.status = "done") =>
        LET hit == AtOrAbove(call.img, call.alphaThreshold)
            b == ret.bounds
            W == call.img.width
        IN  /\ b.found <=> hit # {}
            /\ b.found =>
                 /\ \A p \in hit : /\ b.x <= p % W /\ p % W <= b.x + b.w - 1
                                    /\ b.y <= p \div W /\ p \div W <= b.y + b.h - 1
                 /\ \E p \in hit : p % W = b.x
                 /\ \E p \in hit : p % W = b.x + b.w - 1
                 /\ \E p \in hit : p \div W = b.y
                 /\ \E p \in hit : p \div W = b.y + b.h - 1

\* A bitmap with pixels on both sides of the threshold whose rectangle is
\* smaller than the bitmap, wider than one pixel, and off the origin.
C12_Witness ==
    /\ call.fn = "findOpaqueBounds"
    /\ ret.status = "done"
    /\ ret.bounds.found
    /\ ret.bounds.x > 0
    /\ ret.bounds.w > 1
    /\ ret.bounds.h < call.img.height

cropRawImageMutFromOrigin(img, x, y, w, h) ==
    [width |-> w, height |-> h,
     data |-> [p \in 1..(w * h) |->
                 img.data[((p - 1) \div w) * img.width + ((p - 1) % w) + 1]]]

cropRawImage(img, x, y, w, h) ==
    [width |-> w, height |-> h,
     data |-> [p \in 1..(w * h) |->
                 img.data[(y + ((p - 1) \div w)) * img.width + x + ((p - 1) % w) + 1]]]

(***************************************************************************)
(* config.ts: option values and their ranges.  A numeric option as the     *)
(* caller passes it is undefined, a non-finite number, or a finite number  *)
(* given in halves (h2 = 5 is 2.5), so that Math.trunc has work to do.     *)
(***************************************************************************)
OptUndefined == [k |-> "undefined"]
OptNonFinite == [k |-> "nonfinite"]
OptNum(h2) == [k |-> "num", h2 |-> h2]

SampleWindowRange == [min |-> 1, max |-> 9, default |-> 3]
BackgroundToleranceRange == [min |-> 0, max |-> 255, default |-> 64]
TrimAlphaThresholdRange == [min |-> 1, max |-> 255, default |-> 16]
FloatingMaxPixelsRange == [min |-> 0, max |-> 1000000, default |-> 0]
ForcePixelsRange == [min |-> 1, max |-> 1024, default |-> 0]
ColorCountRange == [min |-> 2, max |-> 256, default |-> 32]
DetectionQuantStepRange == [min |-> 1, max |-> 128, default |-> 64]

\* value ?? d
orDefault(value, d) == IF value.k = "undefined" THEN OptNum(2 * d) ELSE value

\* Math.trunc of h2/2
mathTrunc(h2) == IF h2 >= 0 THEN h2 \div 2 ELSE -((-h2) \div 2)

clampIntMutNoMin(value, range) ==
    Min2(range.max, IF value.k = "num" THEN mathTrunc(value.h2) ELSE range.default)

clampInt(value, range) ==
    LET v == IF value.k = "num" THEN mathTrunc(value.h2) ELSE range.default
    IN  Min2(range.max, Max2(range.min, v))

\* number | undefined
clampOptionalInt(value, range) ==
    IF value.k = "undefined" THEN OptUndefined
    ELSE IF value.k # "num" THEN OptUndefined
    ELSE OptNum(2 * clampInt(value, range))

(***************************************************************************)
(* outline.ts: downsample.                                                 *)
(***************************************************************************)
sortAscending(values) == SortSeq(values, LAMBDA a, b : a < b)

\* medianOf, in halves: twice the median of a list of bytes
medianOf(values) ==
    LET n == Len(values)
        sorted == sortAscending(values)
        mid == n \div 2
    IN  IF n = 0 THEN 0
        ELSE IF n % 2 = 0 THEN sorted[mid] + sorted[mid + 1]
        ELSE 2 * sorted[mid + 1]

\* The byte a Uint8ClampedArray stores for h2/2: the nearest integer, a tie
\* going to the even one, clamped to 0..255.
toUint8Clamp(h2) ==
    LET f == h2 \div 2
        r == IF h2 % 2 = 0 THEN f ELSE IF f % 2 = 0 THEN f ELSE f + 1
    IN  Min2(255, Max2(0, r))

\* the doubles 0.5 and 1e-6
OneHalf == [m |-> <<1>>, e |-> -1]
OneMillionth == [m |-> <<28045, 16747, 7134, 134>>, e |-> -72]

\* the integer a double is; the pipeline indexes bitmaps only with integers
intOf(x) ==
    (CHOOSE v_ \in { bnToInt(bnShl(v.m, v.e)) : v \in {d \in {x} : d.e >= 0} } : TRUE)

sampleCentreMutCeilHalf(i, crop, cell, c, useInt) ==
    IF useInt
    THEN intOf(fadd(fadd(crop, F(i * c)), F((c + 1) \div 2)))
    ELSE mathFloor(fadd(fadd(crop, fmul(fadd(F(i), OneHalf), cell)), OneHalf))

\* The sample centre of output column (or row) i along one axis.
sampleCentre(i, crop, cell, c, useInt) ==
    IF useInt
    THEN intOf(fadd(fadd(crop, F(i * c)), F(c \div 2)))
    ELSE mathFloor(fadd(fadd(crop, fmul(fadd(F(i), OneHalf), cell)), OneHalf))

\* The output pixel whose window is columns x0..x1-1 of rows y0..y1-1.
samplePixel(img, x0, x1, y0, y1) ==
    LET nx == Max2(0, x1 - x0)
        ny == Max2(0, y1 - y0)
        all == [k \in 1..(nx * ny) |->
                  img.data[(y0 + ((k - 1) \div nx)) * img.width
                           + x0 + ((k - 1) % nx) + 1]]
        opaque == SelectSeq(all, LAMBDA px : px[4] >= 16)
        used == IF Len(opaque) > 0 THEN opaque ELSE all
        channel(c) == toUint8Clamp(medianOf([k \in 1..Len(used) |-> used[k][c]]))
    IN  <<channel(1), channel(2), channel(3), channel(4)>>

downsample(img, grid, sampleWindow) ==
    (CHOOSE v_ \in {
      LET half == Max2(0, sampleWindow \div 2)
          imgW == img.width
          imgH == img.height
          x0(i) == Min2(imgW - 1, Max2(0, cs.cx[i + 1] - half))
          x1(i) == Min2(imgW, Max2(1, cs.cx[i + 1] + half + 1))
          y0(j) == Min2(imgH - 1, Max2(0, cs.cy[j + 1] - half))
          y1(j) == Min2(imgH, Max2(1, cs.cy[j + 1] + half + 1))
      IN  [width |-> grid.outW, height |-> grid.outH,
           data |-> [p \in 1..(grid.outW * grid.outH) |->
                       samplePixel(img,
                                   x0((p - 1) % grid.outW), x1((p - 1) % grid.outW),
                                   y0((p - 1) \div grid.outW), y1((p - 1) \div grid.outW))]]
      : cs \in {
          (CHOOSE v_ \in {
            (CHOOSE v_ \in { [cx |-> [i \in 1..grid.outW |->
                              sampleCentre(i - 1, grid.cropX, grid.cellW, r.cw, useInt)],
                    cy |-> [j \in 1..grid.outH |->
                              sampleCentre(j - 1, grid.cropY, grid.cellH, r.ch, useInt)]]
                   : useInt \in {/\ flt(fabsdiff(grid.cellW, F(r.cw)), OneMillionth)
                                 /\ flt(fabsdiff(grid.cellH, F(r.ch)), OneMillionth)} } : TRUE)
            : r \in {[cw |-> mathRound(grid.cellW), ch |-> mathRound(grid.cellH)]} } : TRUE) } } : TRUE)

(***************************************************************************)
(* Specification SpecDownsample: one call of downsample with the grid of   *)
(* one-pixel cells over the whole bitmap (no offset, crop origin 0,        *)
(* outW x outH the bitmap's size) and a sample window of 1 or 3, on every  *)
(* small bitmap of opaque, faint (alpha 8) and clear pixels.               *)
(***************************************************************************)
DownPixels == {<<200, 100, 50, 255>>, <<30, 60, 90, 8>>, <<7, 7, 7, 0>>}
DownWindows == {1, 3}

\* the grid whose cells are the pixels of img
unitGrid(img) ==
    [cellW |-> F(1), cellH |-> F(1), offsetX |-> 0, offsetY |-> 0,
     outW |-> img.width, outH |-> img.height,
     cropX |-> F(0), cropY |-> F(0),
     cropW |-> F(img.width), cropH |-> F(img.height), score |-> 0]

InitDownsample ==
    /\ \E im \in ImagesOver(Shapes, DownPixels), sw \in DownWindows :
          call = [fn |-> "downsample", img |-> im, grid |-> unitGrid(im),
                  sampleWindow |-> sw]
    /\ ret = Pending
    /\ FnOnly

CallDownsample ==
    /\ call.fn = "downsample"
    /\ ret = Pending
    /\ \E d \in {downsample(call.img, call.grid, call.sampleWindow)} :
          ret' = [status |-> "done",
                  img |-> [width |-> d.width, height |-> d.height,
                           data |-> Uint8ClampedArray(d.data)]]
    /\ UNCHANGED <<call, procVars>>

NextDownsample == CallDownsample

SpecDownsample == InitDownsample /\ [][NextDownsample]_vars

\* C13: downsample with cellW = cellH = 1, zero offset and crop origin,
\* outW x outH = W x H and sampleWindow = 1 is the identity: the output has
\* the input's size and every output pixel equals the input pixel at the
\* same place in all four channels, pixels with alpha below 16 included.
C13_UnitDownsampleIsIdentity ==
    (call.fn = "downsample" /\ ret.status = "done" /\ call.sampleWindow = 1) =>
        /\ ret.img.width = call.img.width
        /\ ret.img.height = call.img.height
        /\ \A p \in PixelIdx(call.img) : ret.img.data[p + 1] = call.img.data[p + 1]

\* A unit downsample of a bitmap that holds an opaque pixel, a faint pixel
\* next to it and a clear pixel.
C13_Witness ==
    /\ call.fn = "downsample"
    /\ ret.status = "done"
    /\ call.sampleWindow = 1
    /\ \E p, q \in PixelIdx(call.img) :
          /\ Adjacent4(call.img, p, q)
          /\ call.img.data[p + 1][4] = 255
          /\ call.img.data[q + 1][4] = 8
    /\ \E p \in PixelIdx(call.img) : call.img.data[p + 1][4] = 0

(***************************************************************************)
(* outline.ts: applyOutline.                                               *)
(***************************************************************************)
neighborsMutAlwaysEight(style) ==
    {<<0, -1>>, <<0, 1>>, <<-1, 0>>, <<1, 0>>,
     <<-1, -1>>, <<1, -1>>, <<-1, 1>>, <<1, 1>>}

\* the relative coordinates applyOutline looks at
neighbors(style) ==
    IF style = "sharp"
    THEN {<<0, -1>>, <<0, 1>>, <<-1, 0>>, <<1, 0>>}
    ELSE {<<0, -1>>, <<0, 1>>, <<-1, 0>>, <<1, 0>>,
          <<-1, -1>>, <<1, -1>>, <<-1, 1>>, <<1, 1>>}

\* dstData: the source copied row by row into the middle of a zeroed
\* (srcW + 2) x (srcH + 2) buffer
expandByOne(image) ==
    LET dstW == image.width + 2
        dstH == image.height + 2
    IN  [width |-> dstW, height |-> dstH,
         data |-> [k \in 1..(dstW * dstH) |->
                     LET x == (k - 1) % dstW
                         y == (k - 1) \div dstW
                     IN  IF x >= 1 /\ x <= image.width /\ y >= 1 /\ y <= image.height
                         THEN image.data[(y - 1) * image.width + (x - 1) + 1]
                         ELSE <<0, 0, 0, 0>>]]

hasOpaqueNeighbor(dst, x, y, style) ==
    \E d \in neighbors(style) :
        LET nx == x + d[1]
            ny == y + d[2]
        IN  /\ nx >= 0 /\ nx < dst.width /\ ny >= 0 /\ ny < dst.height
            /\ dst.data[ny * dst.width + nx + 1][4] > 0

\* applyOutline(image, color, style); ref tells whether the returned object
\* is the argument or a new bitmap
applyOutline(image, color, style) ==
    IF style = "none"
    THEN [ref |-> "image", img |-> image]
    ELSE (CHOOSE v_ \in {
            [ref |-> "new",
             img |-> [width |-> dst.width, height |-> dst.height,
                      data |-> [k \in 1..(dst.width * dst.height) |->
                                  IF dst.data[k][4] > 0
                                  THEN dst.data[k]
                                  ELSE IF hasOpaqueNeighbor(dst, (k - 1) % dst.width,
                                                            (k - 1) \div dst.width, style)
                                       THEN <<toUint8Clamp(2 * color[1]),
                                              toUint8Clamp(2 * color[2]),
                                              toUint8Clamp(2 * color[3]), 255>>
                                       ELSE dst.data[k]]]]
            : dst \in {expandByOne(image)} } : TRUE)

OutlinePixels == {<<10, 20, 30, 255>>, <<40, 50, 60, 1>>, <<70, 80, 90, 0>>}
OutlineStyles == {"none", "sharp", "rounded"}
OutlineColors == {<<255, 0, 128>>}

InitOutline ==
    /\ \E im \in ImagesOver(Shapes, OutlinePixels), st \in OutlineStyles,
          c \in OutlineColors :
          call = [fn |-> "applyOutline", img |-> im, color |-> c, style |-> st]
    /\ ret = Pending
    /\ FnOnly

CallApplyOutline ==
    /\ call.fn = "applyOutline"
    /\ ret = Pending
    /\ \E r \in {applyOutline(call.img, call.color, call.style)} :
          ret' = [status |-> "done", ref |-> r.ref, img |-> r.img]
    /\ UNCHANGED <<call, procVars>>

NextOutline == CallApplyOutline

SpecOutline == InitOutline /\ [][NextOutline]_vars

\* the pixel the copy leaves at (x, y) of the enlarged bitmap
copiedAt(img, x, y) ==
    IF x >= 1 /\ x <= img.width /\ y >= 1 /\ y <= img.height
    THEN getPixel(img, x - 1, y - 1)
    ELSE <<0, 0, 0, 0>>

\* (x, y) has a neighbour with alpha > 0 in the copy: at distance 1 along an
\* axis (sharp), or at distance 1 along an axis or a diagonal (rounded)
outlinedAt(img, x, y, style) ==
    \E nx \in 0..(img.width + 1), ny \in 0..(img.height + 1) :
        /\ IF style = "sharp"
           THEN Abs(nx - x) + Abs(ny - y) = 1
           ELSE Max2(Abs(nx - x), Abs(ny - y)) = 1
        /\ copiedAt(img, nx, ny)[4] > 0

\* C18: applyOutline with style sharp or rounded returns a new (W+2) x (H+2)
\* bitmap: a position holding a source pixel of alpha > 0 after the copy to
\* (x+1, y+1) keeps it; a position of alpha 0 after the copy becomes
\* outlineColor with alpha 255 iff one of its 4-neighbours (sharp) or
\* 8-neighbours (rounded) in the copy has alpha > 0, and stays as copied
\* otherwise.  Style none returns the input bitmap object itself.
C18_OutlineContract ==
    (call.fn = "applyOutline" /\ ret.status = "done")
    => IF call.style = "none"
       THEN ret.ref = "image" /\ ret.img = call.img
       ELSE /\ ret.ref = "new"
            /\ ret.img.width = call.img.width + 2
            /\ ret.img.height = call.img.height + 2
            /\ Len(ret.img.data) = ret.img.width * ret.img.height
            /\ \A x \in 0..(call.img.width + 1), y \in 0..(call.img.height + 1) :
                  getPixel(ret.img, x, y) =
                      IF copiedAt(call.img, x, y)[4] = 0
                         /\ outlinedAt(call.img, x, y, call.style)
                      THEN <<call.color[1], call.color[2], call.color[3], 255>>
                      ELSE copiedAt(call.img, x, y)

\* a sharp outline: a transparent source pixel beside an opaque one and the
\* border above it are outlined, the border corner touching it only
\* diagonally is not
C18_Witness ==
    /\ call.fn = "applyOutline"
    /\ ret.status = "done"
    /\ call.style = "sharp"
    /\ getPixel(call.img, 0, 0)[4] > 0
    /\ call.img.width >= 2
    /\ getPixel(call.img, 1, 0)[4] = 0
    /\ getPixel(ret.img, 2, 1)[4] = 255
    /\ getPixel(ret.img, 0, 0)[4] = 0
    /\ getPixel(ret.img, 1, 0)[4] = 255

(***************************************************************************)
(* outline.ts: applyColorReduction, and the part of quantizer.ts it needs. *)
(***************************************************************************)
\* keys of RETRO_PALETTES other than the two SFC modes
RetroPaletteNames ==
    {"gb_legacy", "gb_pocket", "gb_light", "pico8", "nes", "mono",
     "pc98", "msx", "c64", "arne16"}

\* OklabKMeans(maxColors).quantize up to the point where clustering starts:
\* the pixel list comes back untouched when there is nothing to reduce.
\* The clustering itself (random centroids) and the fixed palettes are
\* outside this model: a call that reaches them has no value here.
quantizeUnchangedMutStrict(maxColors, pixels) ==
    LET opaquePixels == SelectSeq(pixels, LAMBDA p : p[4] > 0)
        uniqueColors == {<<opaquePixels[k][1], opaquePixels[k][2], opaquePixels[k][3]>> :
                            k \in 1..Len(opaquePixels)}
    IN  \/ Len(opaquePixels) = 0
        \/ maxColors >= Len(opaquePixels)
        \/ Cardinality(uniqueColors) < maxColors

quantizeUnchanged(maxColors, pixels) ==
    LET opaquePixels == SelectSeq(pixels, LAMBDA p : p[4] > 0)
        uniqueColors == {<<opaquePixels[k][1], opaquePixels[k][2], opaquePixels[k][3]>> :
                            k \in 1..Len(opaquePixels)}
    IN  \/ Len(opaquePixels) = 0
        \/ maxColors >= Len(opaquePixels)
        \/ Cardinality(uniqueColors) <= maxColors

quantize(maxColors, pixels) ==
    (CHOOSE v_ \in { ps \in {pixels} : quantizeUnchanged(maxColors, ps) } : TRUE)

(***************************************************************************)
(* quantizer.ts: OklabKMeans.quantize with its clustering.  The clustering  *)
(* draws from Math.random and works in Oklab doubles; which colours the     *)
(* centroids end on and which centroid is nearest to a colour are left open *)
(* here: every palette of the right length and every assignment of the      *)
(* image's colours to its entries is an outcome.                            *)
(***************************************************************************)
MaxListLen == 4
MaxKMeansColors == 3

\* colorMap's keys: the distinct RGB of the pixels with alpha > 0
colorMapKeys(pixels) == {rgbOf(pixels[k]) : k \in {j \in 1..Len(pixels) : pixels[j][4] > 0}}

initializeCentroidsMutAllColors(maxColors, nUnique) == nUnique

\* initializeCentroids: the loop pushes one centroid per turn that draws an
\* unused index, until maxColors centroids or every colour is used
initializeCentroids(maxColors, nUnique) ==
    IF maxColors > 0 THEN Min2(maxColors, nUnique) ELSE 0

\* what oklabToRgb can make of a centroid: a byte triple (the colours of the
\* image and one that is in no image of the model)
centroidRgbs(pixels) == colorMapKeys(pixels) \cup {<<128, 128, 128>>}

\* the last step of quantize: pixels.map with the palette and centroidRgbMap
mapToPalette(pixels, palette, centroidRgbMap) ==
    [k \in 1..Len(pixels) |->
        IF pixels[k][4] = 0
        THEN pixels[k]
        ELSE (CHOOSE v_ \in { <<rgb[1], rgb[2], rgb[3], pixels[k][4]>>
                              : rgb \in {palette[centroidRgbMap[rgbOf(pixels[k])] + 1]} } : TRUE)]

\* the results OklabKMeans(maxColors).quantize(pixels) can return
quantizeOutcomes(maxColors, pixels) ==
    IF quantizeUnchanged(maxColors, pixels)
    THEN {pixels}
    ELSE UNION { { mapToPalette(pixels, palette, centroidRgbMap)
                   : palette \in [1..n -> centroidRgbs(pixels)],
                     centroidRgbMap \in [colorMapKeys(pixels) -> 0..(n - 1)] }
                 : n \in {initializeCentroids(maxColors,
                                              Cardinality(colorMapKeys(pixels)))} }

KMeansPixels ==
    {<<200, 0, 0, 255>>, <<0, 200, 0, 255>>, <<0, 0, 200, 255>>, <<200, 0, 0, 128>>,
     <<0, 200, 0, 0>>}

PixelLists(pixels, maxLen) == UNION {[1..n -> pixels] : n \in 0..maxLen}

InitKMeans ==
    /\ \E ps \in PixelLists(KMeansPixels, MaxListLen), k \in 1..MaxKMeansColors :
          call = [fn |-> "OklabKMeans.quantize", maxColors |-> k, pixels |-> ps]
    /\ ret = Pending
    /\ FnOnly

CallKMeansQuantize ==
    /\ call.fn = "OklabKMeans.quantize"
    /\ ret = Pending
    /\ \E out \in quantizeOutcomes(call.maxColors, call.pixels) :
          ret' = [status |-> "done", pixels |-> out]
    /\ UNCHANGED <<call, procVars>>

NextKMeans == CallKMeansQuantize

SpecKMeans == InitKMeans /\ [][NextKMeans]_vars

\* C14: when the pixels with alpha > 0 have at most maxColors distinct RGB
\* values, OklabKMeans.quantize returns its input list unchanged.
C14_FewColoursUnchanged ==
    (call.fn = "OklabKMeans.quantize" /\ ret.status = "done"
        /\ Cardinality(colorMapKeys(call.pixels)) <= call.maxColors)
    => ret.pixels = call.pixels

\* exactly maxColors colours on more than maxColors opaque pixels: only the
\* count of distinct colours stops the clustering
C14_Witness ==
    /\ call.fn = "OklabKMeans.quantize"
    /\ ret.status = "done"
    /\ Cardinality(colorMapKeys(call.pixels)) = call.maxColors
    /\ Len(SelectSeq(call.pixels, LAMBDA p : p[4] > 0)) > call.maxColors
    /\ ret.pixels = call.pixels

\* C15: whatever the random draws, OklabKMeans.quantize returns one pixel
\* per input pixel in order; a pixel of alpha 0 is passed through; every other
\* pixel keeps its alpha; and the output pixels of alpha > 0 have at most
\* maxColors distinct RGB values.
C15_QuantizeShape ==
    (call.fn = "OklabKMeans.quantize" /\ ret.status = "done")
    => /\ Len(ret.pixels) = Len(call.pixels)
       /\ \A k \in 1..Len(call.pixels) :
             /\ call.pixels[k][4] = 0 => ret.pixels[k] = call.pixels[k]
             /\ ret.pixels[k][4] = call.pixels[k][4]
       /\ Cardinality(colorMapKeys(ret.pixels)) <= call.maxColors

\* the clustering ran: more colours than maxColors went in, a pixel of
\* alpha 0 and one of alpha 128 among them, and some colour came out changed
C15_Witness ==
    /\ call.fn = "OklabKMeans.quantize"
    /\ ret.status = "done"
    /\ Cardinality(colorMapKeys(call.pixels)) > call.maxColors
    /\ \E k \in 1..Len(call.pixels) : call.pixels[k][4] = 0
    /\ \E k \in 1..Len(call.pixels) :
          call.pixels[k][4] = 128 /\ rgbOf(ret.pixels[k]) # rgbOf(call.pixels[k])
    /\ Cardinality(colorMapKeys(ret.pixels)) = call.maxColors

\* Math.round(v / 8) * 8 for a byte v
roundToMultipleOf8(v) == ((v + 4) \div 8) * 8

\* ops.ts roundTo15bitColor: the rounded channels are stored into a
\* Uint8ClampedArray
roundTo15bitColor(img) ==
    [width |-> img.width, height |-> img.height,
     data |-> [k \in 1..Len(img.data) |->
                 <<toUint8Clamp(2 * roundToMultipleOf8(img.data[k][1])),
                   toUint8Clamp(2 * roundToMultipleOf8(img.data[k][2])),
                   toUint8Clamp(2 * roundToMultipleOf8(img.data[k][3])),
                   toUint8Clamp(2 * img.data[k][4])>>]]

\* the pre-rounding of the SFC modes: the pixels are plain numbers
sfcPreRound(pixelData) ==
    [k \in 1..Len(pixelData) |->
        <<roundToMultipleOf8(pixelData[k][1]),
          roundToMultipleOf8(pixelData[k][2]),
          roundToMultipleOf8(pixelData[k][3]),
          pixelData[k][4]>>]

applyColorReduction(img, mode, colorCount) ==
    LET isSfcMode == mode = "sfc_sprite" \/ mode = "sfc_bg"
        workingPixelData == IF isSfcMode THEN sfcPreRound(img.data) ELSE img.data
        count == IF mode = "sfc_sprite" THEN 16
                 ELSE IF mode = "sfc_bg" THEN 256
                 ELSE colorCount
        reducedPixels ==
            IF mode = "auto" \/ isSfcMode THEN quantize(count, workingPixelData)
            ELSE (CHOOSE v_ \in { quantize(colorCount, workingPixelData) :
                        m \in {mode} \ RetroPaletteNames } : TRUE)
    IN  (CHOOSE v_ \in { [width |-> img.width, height |-> img.height,
                data |-> [k \in 1..Len(reduced) |->
                            <<toUint8Clamp(2 * reduced[k][1]),
                              toUint8Clamp(2 * reduced[k][2]),
                              toUint8Clamp(2 * reduced[k][3]),
                              toUint8Clamp(2 * reduced[k][4])>>]]
               : reduced \in {reducedPixels} } : TRUE)

(***************************************************************************)
(* quantizer.ts: PaletteQuantizer.dither.  The channels of the working      *)
(* copy are doubles; with weights k/16 and a strength that is a multiple of *)
(* a power of 1/2 every value is a dyadic rational n / 2^d of fewer than 53 *)
(* bits, which the doubles hold exactly.  A dyadic is the pair <<n, d>> with *)
(* n odd or d = 0.  Which palette entry is nearest in Oklab is left open:   *)
(* every index of the palette is an outcome for every pixel.                *)
(***************************************************************************)
MaxDitherSide == 4
MaxDitherPixels == 4

RECURSIVE dyNorm(_, _)
dyNorm(n, d) == IF d > 0 /\ n % 2 = 0 THEN dyNorm(n \div 2, d - 1) ELSE <<n, d>>

RECURSIVE dyPow2(_)
dyPow2(d) == IF d = 0 THEN 1 ELSE 2 * dyPow2(d - 1)

Dy(n) == <<n, 0>>
dyAdd(a, b) ==
    LET d == Max2(a[2], b[2])
    IN  dyNorm(a[1] * dyPow2(d - a[2]) + b[1] * dyPow2(d - b[2]), d)
dySub(a, b) == dyAdd(a, <<-b[1], b[2]>>)
dyMul(a, b) == dyNorm(a[1] * b[1], a[2] + b[2])

\* Math.max(0, Math.min(255, v))
dyClampByte(v) ==
    LET whole == v[1] \div dyPow2(v[2])
        frac == v[1] % dyPow2(v[2])
    IN  IF v[1] < 0 THEN Dy(0)
        ELSE IF whole >= 256 \/ (whole = 255 /\ frac > 0) THEN Dy(255)
        ELSE v

distributeErrorMutNoAlphaTest(st, from, x, y, width, height, err, weight) ==
    IF x < 0 \/ x >= width \/ y < 0 \/ y >= height
    THEN st
    ELSE (CHOOSE v_ \in {
            [st EXCEPT
                !.out[idx + 1] =
                    <<dyClampByte(dyAdd(@[1], dyMul(err[1], weight))),
                      dyClampByte(dyAdd(@[2], dyMul(err[2], weight))),
                      dyClampByte(dyAdd(@[3], dyMul(err[3], weight))),
                      @[4]>>,
                !.writes = @ \cup {[from |-> from, to |-> idx]}]
            : idx \in {y * width + x} } : TRUE)

\* distributeError(pixels, x, y, width, height, errR, errG, errB, weight),
\* called while the pixel at index from is processed
distributeError(st, from, x, y, width, height, err, weight) ==
    IF x < 0 \/ x >= width \/ y < 0 \/ y >= height
    THEN st
    ELSE (CHOOSE v_ \in {
            IF st.out[idx + 1][4] = 0
            THEN st
            ELSE [st EXCEPT
                    !.out[idx + 1] =
                        <<dyClampByte(dyAdd(@[1], dyMul(err[1], weight))),
                          dyClampByte(dyAdd(@[2], dyMul(err[2], weight))),
                          dyClampByte(dyAdd(@[3], dyMul(err[3], weight))),
                          @[4]>>,
                    !.writes = @ \cup {[from |-> from, to |-> idx]}]
            : idx \in {y * width + x} } : TRUE)

\* one turn of the loops over y and x, for the pixel at index st.i;
\* bestIdx[st.i] is the palette index the search ends on
ditherStep(st, width, height, strength, palette, bestIdx) ==
    IF st.out[st.i + 1][4] = 0
    THEN [st EXCEPT !.i = @ + 1]
    ELSE LET closest == palette[bestIdx[st.i] + 1]
             x == st.i % width
             y == st.i \div width
         IN  (CHOOSE v_ \in {
                [distributeError(
                   distributeError(
                     distributeError(
                       distributeError(
                         [st EXCEPT !.out[st.i + 1] =
                             <<Dy(closest[1]), Dy(closest[2]), Dy(closest[3]), @[4]>>],
                         st.i, x + 1, y, width, height, err, <<7, 4>>),
                       st.i, x - 1, y + 1, width, height, err, <<3, 4>>),
                     st.i, x, y + 1, width, height, err, <<5, 4>>),
                   st.i, x + 1, y + 1, width, height, err, <<1, 4>>)
                 EXCEPT !.i = @ + 1]
                : err \in {<<dyMul(dySub(st.out[st.i + 1][1], Dy(closest[1])), strength),
                             dyMul(dySub(st.out[st.i + 1][2], Dy(closest[2])), strength),
                             dyMul(dySub(st.out[st.i + 1][3], Dy(closest[3])), strength)>>}
                } : TRUE)

\* PaletteQuantizer(palette).dither(pixels, width, height, strength); writes
\* are the pairs (pixel processed, pixel that received error)
dither(pixels, width, height, strength, palette, bestIdx) ==
    (CHOOSE v_ \in {
        [pixels |-> [k \in 1..Len(fin.out) |->
                        <<fin.out[k][1][1], fin.out[k][2][1], fin.out[k][3][1],
                          fin.out[k][4]>>],
         whole |-> \A k \in 1..Len(fin.out) : \A c \in 1..3 : fin.out[k][c][2] = 0,
         writes |-> fin.writes]
        : fin \in {Loop(LAMBDA st : ditherStep(st, width, height, strength,
                                               palette, bestIdx),
                        LAMBDA st : st.i >= width * height,
                        [i |-> 0,
                         out |-> [k \in 1..Len(pixels) |->
                                    <<Dy(pixels[k][1]), Dy(pixels[k][2]),
                                      Dy(pixels[k][3]), pixels[k][4]>>],
                         writes |-> {}],
                        Log2Ceil(width * height))} } : TRUE)

DitherShapes ==
    {s \in (1..MaxDitherSide) \X (1..MaxDitherSide) : s[1] * s[2] <= MaxDitherPixels}
DitherPixels == {<<100, 50, 200, 255>>, <<250, 4, 30, 128>>, <<7, 8, 9, 0>>}
DitherStrengths == {<<0, 0>>, <<1, 1>>, <<1, 0>>}
MonoPalette == <<<<0, 0, 0>>, <<255, 255, 255>>>>
DitherPalettes == {MonoPalette, <<<<29, 43, 83>>, <<255, 0, 77>>, <<0, 228, 54>>>>}

InitDither ==
    /\ \E s \in DitherShapes, pal \in DitherPalettes, str \in DitherStrengths :
          \E ps \in [1..(s[1] * s[2]) -> DitherPixels] :
             call = [fn |-> "PaletteQuantizer.dither", palette |-> pal, pixels |-> ps,
                     width |-> s[1], height |-> s[2], strength |-> str]
    /\ ret = Pending
    /\ FnOnly

CallPaletteDither ==
    /\ call.fn = "PaletteQuantizer.dither"
    /\ ret = Pending
    /\ \E bestIdx \in [0..(Len(call.pixels) - 1) -> 0..(Len(call.palette) - 1)] :
          \E r \in {dither(call.pixels, call.width, call.height, call.strength,
                            call.palette, bestIdx)} :
             ret' = [status |-> "done", pixels |-> r.pixels, whole |-> r.whole,
                     writes |-> r.writes]
    /\ UNCHANGED <<call, procVars>>

NextDither == CallPaletteDither

SpecDither == InitDither /\ [][NextDither]_vars

\* C17: PaletteQuantizer.dither with a non-empty palette and a strength in
\* [0, 1] returns pixels of which every one with alpha > 0 has the RGB of a
\* palette entry (black or white under the mono palette), every one has its
\* input's alpha, and every one of alpha 0 is unchanged in all channels;
\* error is only ever added to pixels that come later in the scan and have
\* alpha > 0.
C17_DitherContract ==
    (call.fn = "PaletteQuantizer.dither" /\ ret.status = "done")
    => /\ Len(ret.pixels) = Len(call.pixels)
       /\ ret.whole
       /\ \A k \in 1..Len(call.pixels) :
             /\ ret.pixels[k][4] = call.pixels[k][4]
             /\ call.pixels[k][4] = 0 => ret.pixels[k] = call.pixels[k]
             /\ call.pixels[k][4] > 0 =>
                   \E i \in 1..Len(call.palette) : rgbOf(ret.pixels[k]) = call.palette[i]
             /\ (call.pixels[k][4] > 0 /\ call.palette = MonoPalette) =>
                   rgbOf(ret.pixels[k]) \in {<<0, 0, 0>>, <<255, 255, 255>>}
       /\ \A w \in ret.writes : w.to > w.from /\ call.pixels[w.to + 1][4] > 0

\* error was diffused at half strength past a pixel of alpha 0: the pixel to
\* the right of the first took error, the transparent one below did not
C17_Witness ==
    /\ call.fn = "PaletteQuantizer.dither"
    /\ ret.status = "done"
    /\ call.width = 2 /\ call.height = 2
    /\ call.strength = <<1, 1>>
    /\ call.pixels[3][4] = 0
    /\ call.pixels[4][4] = 128
    /\ [from |-> 0, to |-> 1] \in ret.writes
    /\ [from |-> 0, to |-> 3] \in ret.writes
    /\ [from |-> 1, to |-> 3] \in ret.writes
    /\ \A w \in ret.writes : w.to # 2

(***************************************************************************)
(* Specification SpecOklab: rgbToOklab followed by oklabToRgb on a byte    *)
(* triple, and oklabToRgb on its own on Oklab values inside and outside    *)
(* the gamut.                                                              *)
(***************************************************************************)
\* channel values on both sides of the switch of srgbToLinear (between 10
\* and 11) and at both ends
OklabChannels == {0, 10, 11, 128, 255}

\* Oklab coordinates in halves: L = -1, 0.5, 2 and a, b = -0.5, 0, 0.5
OklabLHalves == {-2, 1, 4}
OklabABHalves == {-1, 0, 1}

ivHalves(n) == ivDivInt(ivInt(n), 2)

InitOklab ==
    /\ \/ \E L \in OklabLHalves, a, b \in OklabABHalves :
             call = [fn |-> "oklabToRgb", lab |-> <<L, a, b>>]
       \/ \E r, g, b \in OklabChannels : call = [fn |-> "rgbToOklab", rgb |-> <<r, g, b>>]
    /\ ret = Pending
    /\ FnOnly

CallRgbToOklab ==
    /\ call.fn = "rgbToOklab"
    /\ ret = Pending
    /\ ret' = [status |-> "lab",
               lab |-> rgbToOklab(<<ivInt(call.rgb[1]), ivInt(call.rgb[2]),
                                    ivInt(call.rgb[3])>>)]
    /\ UNCHANGED <<call, procVars>>

\* oklabToRgb on the value rgbToOklab returned, or on the caller's value
CallOklabToRgb ==
    /\ ret.status = (IF call.fn = "rgbToOklab" THEN "lab" ELSE "pending")
    /\ call.fn \in {"rgbToOklab", "oklabToRgb"}
    /\ \E out \in {oklabToRgb(IF call.fn = "rgbToOklab" THEN ret.lab
                              ELSE [L |-> ivHalves(call.lab[1]),
                                    a |-> ivHalves(call.lab[2]),
                                    b |-> ivHalves(call.lab[3])])} :
          \E r \in out.r, g \in out.g, b \in out.b :
             ret' = [status |-> "done", rgb |-> <<r, g, b>>]
    /\ UNCHANGED <<call, procVars>>

NextOklab == CallRgbToOklab \/ CallOklabToRgb

SpecOklab == InitOklab /\ [][NextOklab]_vars

\* C20: for every byte triple, oklabToRgb(rgbToOklab(r, g, b)) has each
\* channel within 1 of the original; and every channel oklabToRgb returns
\* is a whole number in 0..255.
C20_OklabRoundTrip ==
    (call.fn \in {"rgbToOklab", "oklabToRgb"} /\ ret.status = "done")
    => /\ \A i \in 1..3 : ret.rgb[i] \in 0..255
       /\ call.fn = "rgbToOklab" =>
             \A i \in 1..3 : Abs(ret.rgb[i] - call.rgb[i]) <= 1

\* a round trip through both branches of srgbToLinear and linearToSrgb
C20_Witness ==
    /\ call.fn = "rgbToOklab"
    /\ call.rgb = <<10, 11, 255>>
    /\ ret.status = "done"
    /\ ret.rgb = call.rgb

(***************************************************************************)
(* quantizer.ts: PaletteQuantizer.quantize snaps every pixel of alpha > 0  *)
(* to the palette entry of the least distance, the first of equals.        *)
(***************************************************************************)
K0_2 == ivDec(20000, 0)
K0_1 == ivDec(10000, 0)
K1_5 == ivDivInt(ivInt(3), 2)
K0_5 == ivDivInt(ivInt(1), 2)

\* certainly x < y, certainly not x < y
ivSureLt(x, y) == sCmp(x.hi, y.lo) < 0
ivSureGe(x, y) == sCmp(x.lo, y.hi) >= 0

\* cond ? a : b for cond = x < y, which the enclosures may leave open
ivIfLt(x, y, a, b) ==
    IF ivSureLt(x, y) THEN a ELSE IF ivSureGe(x, y) THEN b ELSE ivHull(a, b)

ivSq(x) == ivMul(x, x)

colorDistanceSq(c1, c2) ==
    ivAdd(ivAdd(ivSq(ivSub(c1.L, c2.L)), ivSq(ivSub(c1.a, c2.a))),
          ivSq(ivSub(c1.b, c2.b)))

labOf(rgb) == rgbToOklab(<<ivInt(rgb[1]), ivInt(rgb[2]), ivInt(rgb[3])>>)

\* the lines 370..395 of quantize: the distance of pixel p (Oklab value lab)
\* to the palette entry targetRgb (Oklab value targetLab)
paletteDistance(p, lab, targetRgb, targetLab) ==
    (CHOOSE v_ \in {
      (CHOOSE v_ \in {
        ivIfLt(lab.L, K0_1,
               ivAdd(biased,
                     ivMul(ivAdd(ivAdd(ivSq(ivDivInt(ivInt(p[1] - targetRgb[1]), 255)),
                                       ivSq(ivDivInt(ivInt(p[2] - targetRgb[2]), 255))),
                                 ivSq(ivDivInt(ivInt(p[3] - targetRgb[3]), 255))),
                           ivSub(K0_5, lab.L))),
               biased)
        : biased \in {IF targetRgb = <<0, 0, 0>>
                      THEN ivIfLt(lab.L, K0_2,
                                  ivSub(dist, ivSq(ivMul(ivSub(K0_2, lab.L), K1_5))),
                                  dist)
                      ELSE dist} } : TRUE)
      : dist \in {colorDistanceSq(lab, targetLab)} } : TRUE)

\* one turn of the loop over the palette: st.found holds the values
\* (paletteIdx, minDist) can have, minDist = Number.MAX_VALUE as max
nearestStep(st, p, lab, palette, paletteLabs) ==
    (CHOOSE v_ \in {
      [i |-> st.i + 1,
       found |-> UNION { IF f.max \/ ivSureLt(dist, f.minDist)
                         THEN {[paletteIdx |-> st.i, max |-> FALSE, minDist |-> dist]}
                         ELSE IF ivSureGe(dist, f.minDist)
                         THEN {f}
                         ELSE {f, [paletteIdx |-> st.i, max |-> FALSE, minDist |-> dist]}
                         : f \in st.found }]
      : dist \in {paletteDistance(p, lab, palette[st.i + 1], paletteLabs[st.i + 1])}
      } : TRUE)

\* the palette indexes (from 0) the loop can end with for pixel p
nearestIndexes(p, palette, paletteLabs) ==
    (CHOOSE v_ \in {
      {f.paletteIdx :
         f \in Loop(LAMBDA st : nearestStep(st, p, lab, palette, paletteLabs),
                    LAMBDA st : st.i >= Len(palette),
                    [i |-> 0,
                     found |-> {[paletteIdx |-> 0, max |-> TRUE, minDist |-> ivInt(0)]}],
                    Log2Ceil(Len(palette) + 1)).found}
      : lab \in {labOf(rgbOf(p))} } : TRUE)

\* quantize(pixels) with memo[rgb] the index found for the colour rgb
paletteQuantize(pixels, palette, memo) ==
    [k \in 1..Len(pixels) |->
       IF pixels[k][4] = 0 THEN pixels[k]
       ELSE (CHOOSE v_ \in { <<rgb[1], rgb[2], rgb[3], pixels[k][4]>>
                              : rgb \in {palette[memo[rgbOf(pixels[k])] + 1]} } : TRUE)]

MaxQuantizeLen == 2
QuantizePalettes ==
    {MonoPalette,
     <<<<0, 0, 0>>, <<5, 5, 5>>, <<255, 255, 255>>>>,
     <<<<3, 3, 3>>, <<10, 10, 10>>>>,
     <<<<80, 48, 0>>, <<0, 0, 0>>>>}
QuantizePixels ==
    {<<5, 5, 5, 255>>, <<0, 0, 0, 128>>, <<3, 3, 3, 1>>, <<80, 48, 0, 255>>,
     <<9, 9, 9, 0>>}

InitPaletteQuantize ==
    /\ \E pal \in QuantizePalettes, n \in 1..MaxQuantizeLen :
          \E ps \in [1..n -> QuantizePixels] :
             call = [fn |-> "PaletteQuantizer.quantize", palette |-> pal, pixels |-> ps]
    /\ ret = Pending
    /\ FnOnly

\* new PaletteQuantizer(palette).quantize(pixels)
CallPaletteQuantize ==
    /\ call.fn = "PaletteQuantizer.quantize"
    /\ ret = Pending
    /\ \E paletteLabs \in {[i \in 1..Len(call.palette) |-> labOf(call.palette[i])]} :
          \E near \in {[c \in {rgbOf(call.pixels[k]) :
                               k \in {j \in 1..Len(call.pixels) : call.pixels[j][4] # 0}}
                        |-> nearestIndexes(c, call.palette, paletteLabs)]} :
             \E memo \in [DOMAIN near -> 0..(Len(call.palette) - 1)] :
                /\ \A c \in DOMAIN near : memo[c] \in near[c]
                /\ ret' = [status |-> "done",
                           pixels |-> paletteQuantize(call.pixels, call.palette, memo)]
    /\ UNCHANGED <<call, procVars>>

NextPaletteQuantize == CallPaletteQuantize

SpecPaletteQuantize == InitPaletteQuantize /\ [][NextPaletteQuantize]_vars

\* C16: PaletteQuantizer.quantize maps every pixel of alpha > 0 whose RGB is
\* that of a palette entry to the same RGB with its alpha kept, for every
\* non-empty palette, the biases for dark pixels included.
C16_PaletteFixed ==
    (call.fn = "PaletteQuantizer.quantize" /\ ret.status = "done")
    => \A k \in 1..Len(call.pixels) :
          (/\ call.pixels[k][4] > 0
           /\ \E i \in 1..Len(call.palette) : call.palette[i] = rgbOf(call.pixels[k]))
          => ret.pixels[k] = call.pixels[k]

(***************************************************************************)
(* outline.ts: the grid search on the trimmed bitmap.                      *)
(***************************************************************************)
NoEstimate == [found |-> FALSE]

\* the double 0.0025
Complexity == [m |-> <<5243, 3932, 27525, 163>>, e |-> -61]

\* The candidate outH of one scan, or no candidate (`continue`):
\* [ok, outW, outH, cellW, cellH, score].
searchCandidate(cropped, mask, sampleWindow, outH, ratio, pixelStride) ==
    (CHOOSE v_ \in {
      IF outW > 256 \/ outH > 256 THEN [ok |-> FALSE]
      ELSE (CHOOSE v_ \in {
        IF ~(flt(F(1), c.cellW) /\ flt(F(1), c.cellH)) THEN [ok |-> FALSE]
        ELSE (CHOOSE v_ \in {
          LET col == [x \in 1..cropped.width |->
                        Min2(outW - 1, Max2(0, mathFloor(fdiv(F(x - 1), c.cellW))))]
              row == [y \in 1..cropped.height |->
                        Min2(outH - 1, Max2(0, mathFloor(fdiv(F(y - 1), c.cellH))))]
              pts == {p \in 0..(cropped.width * cropped.height - 1) :
                        /\ (p % cropped.width) % pixelStride = 0
                        /\ (p \div cropped.width) % pixelStride = 0
                        /\ mask.data[p + 1][4] >= 16}
              diff(p) ==
                  LET a == cropped.data[p + 1]
                      b == small.data[row[(p \div cropped.width) + 1] * outW
                                      + col[(p % cropped.width) + 1] + 1]
                  IN  Abs(a[1] - b[1]) + Abs(a[2] - b[2]) + Abs(a[3] - b[3])
              err == sumRange(LAMBDA p : IF p \in pts THEN diff(p) ELSE 0,
                              0, cropped.width * cropped.height - 1)
              n == Cardinality(pts)
          IN  IF n = 0 THEN [ok |-> FALSE]
              ELSE [ok |-> TRUE, outW |-> outW, outH |-> outH,
                    cellW |-> c.cellW, cellH |-> c.cellH,
                    score |-> fadd(fdiv(F(err), F(n)),
                                   fmul(Complexity, F(outW * outH)))]
          : small \in {downsample(cropped,
                         [cellW |-> c.cellW, cellH |-> c.cellH,
                          offsetX |-> 0, offsetY |-> 0, outW |-> outW, outH |-> outH,
                          cropX |-> F(0), cropY |-> F(0),
                          cropW |-> F(cropped.width), cropH |-> F(cropped.height),
                          score |-> 0],
                         sampleWindow)} } : TRUE)
        : c \in {[cellW |-> fdiv(F(cropped.width), F(outW)),
                  cellH |-> fdiv(F(cropped.height), F(outH))]} } : TRUE)
      : outW \in {Max2(2, mathRound(fmul(F(outH), ratio)))} } : TRUE)

\* One pass of the loop over outH: st = [outH, best].
searchStep(st, cropped, mask, sampleWindow, ratio, outHStep, pixelStride) ==
    (CHOOSE v_ \in {
      [outH |-> st.outH + outHStep,
       best |-> IF ~c.ok THEN st.best
                ELSE IF ~st.best.ok THEN c
                ELSE IF flt(c.score, st.best.score) THEN c
                ELSE st.best]
      : c \in {searchCandidate(cropped, mask, sampleWindow, st.outH, ratio,
                               pixelStride)} } : TRUE)

\* for (outH = outHMin; outH <= outHMax; outH += outHStep): the best candidate
searchScan(cropped, mask, sampleWindow, outHMin, outHMax, outHStep, pixelStride) ==
    (CHOOSE v_ \in {
      Loop(LAMBDA st : searchStep(st, cropped, mask, sampleWindow, ratio,
                                  outHStep, pixelStride),
           LAMBDA st : st.outH > outHMax,
           [outH |-> outHMin, best |-> [ok |-> FALSE]],
           Log2Ceil(Max2(1, outHMax - outHMin + 1))).best
      : ratio \in {fdiv(F(cropped.width), F(Max2(1, cropped.height)))} } : TRUE)

estimateOf(best) ==
    IF ~best.ok THEN NoEstimate
    ELSE [found |-> TRUE, outW |-> best.outW, outH |-> best.outH,
          cellW |-> best.cellW, cellH |-> best.cellH, offsetX |-> 0, offsetY |-> 0]

legacySearchGridFromTrimmed(cropped, mask, sampleWindow) ==
    LET outHMin == Max2(2, cropped.height \div 32)
        outHMax == Min2(128, Max2(outHMin, cropped.height \div 4))
    IN  estimateOf(searchScan(cropped, mask, sampleWindow, outHMin, outHMax, 1, 1))

fastSearchGridFromTrimmedMutStride(cropped, mask, sampleWindow) ==
    LET outHMin == Max2(2, cropped.height \div 32)
        outHMax == Min2(128, Max2(outHMin, cropped.height \div 4))
        span == outHMax - outHMin
        outHStep == IF span >= 64 THEN 3 ELSE IF span >= 32 THEN 2 ELSE 1
        pixelStride == 2
    IN  (CHOOSE v_ \in {
          IF ~coarse.ok THEN NoEstimate
          ELSE (CHOOSE v_ \in {
                 IF refined.ok THEN estimateOf(refined) ELSE estimateOf(coarse)
                 : refined \in {searchScan(cropped, mask, sampleWindow,
                                   Max2(outHMin, coarse.outH - outHStep * 2),
                                   Min2(outHMax, coarse.outH + outHStep * 2),
                                   1, Max2(1, pixelStride \div 2))} } : TRUE)
          : coarse \in {searchScan(cropped, mask, sampleWindow, outHMin, outHMax,
                                   outHStep, pixelStride)} } : TRUE)

\* FastGridSearchFromTrimmed.search: a coarse scan, then a scan with stride 1
\* around the coarse best
fastSearchGridFromTrimmed(cropped, mask, sampleWindow) ==
    LET outHMin == Max2(2, cropped.height \div 32)
        outHMax == Min2(128, Max2(outHMin, cropped.height \div 4))
        span == outHMax - outHMin
        outHStep == IF span >= 64 THEN 3 ELSE IF span >= 32 THEN 2 ELSE 1
        maxDim == Max2(cropped.width, cropped.height)
        pixelStride == Min2(4, Max2(1, maxDim \div 512))
    IN  (CHOOSE v_ \in {
          IF ~coarse.ok THEN NoEstimate
          ELSE (CHOOSE v_ \in {
                 IF refined.ok THEN estimateOf(refined) ELSE estimateOf(coarse)
                 : refined \in {searchScan(cropped, mask, sampleWindow,
                                   Max2(outHMin, coarse.outH - outHStep * 2),
                                   Min2(outHMax, coarse.outH + outHStep * 2),
                                   1, Max2(1, pixelStride \div 2))} } : TRUE)
          : coarse \in {searchScan(cropped, mask, sampleWindow, outHMin, outHMax,
                                   outHStep, pixelStride)} } : TRUE)

\* getGridSearchFromTrimmedStrategy(fast).search
searchGridFromTrimmed(fast, cropped, mask, sampleWindow) ==
    IF fast THEN fastSearchGridFromTrimmed(cropped, mask, sampleWindow)
    ELSE legacySearchGridFromTrimmed(cropped, mask, sampleWindow)

(***************************************************************************)
(* detector.ts.  Lengths and counts are small integers, for which the      *)
(* double a / b rounds and floors like the exact quotient:                 *)
(* Math.floor(a / b) is a \div b and Math.round(a / b) is                  *)
(* (2a + b) \div 2b, and a / b >= 0.7 holds exactly when 10a >= 7b.        *)
(***************************************************************************)
\* the elements of a finite set of integers in increasing order
sortedSeqOf(S) ==
    [k \in 1..Cardinality(S) |->
        CHOOSE v \in S : Cardinality({u \in S : u < v}) = k - 1]

roundDiv(a, b) == (2 * a + b) \div (2 * b)

quantizeChannel(value, step) ==
    IF step <= 0 THEN value
    ELSE Min2(255, Max2(0, (value \div step) * step))

\* ops.ts
posterize(img, step) ==
    IF step <= 0 THEN img
    ELSE [img EXCEPT !.data =
            [p \in 1..Len(img.data) |->
                <<quantizeChannel(img.data[p][1], step),
                  quantizeChannel(img.data[p][2], step),
                  quantizeChannel(img.data[p][3], step),
                  img.data[p][4]>>]]

\* ops.ts: the row (axis "y") or the column (axis "x") at a position
extractStrip(img, axis, pos) ==
    IF axis = "y"
    THEN LET y == Min2(img.height - 1, Max2(0, pos))
         IN  [k \in 1..img.width |-> getPixel(img, k - 1, y)]
    ELSE IF axis = "x"
    THEN LET x == Min2(img.width - 1, Max2(0, pos))
         IN  [k \in 1..img.height |-> getPixel(img, x, k - 1)]
    ELSE <<>>

\* The runs of one opaque stretch seg that starts at segStart.
runsOf(seg, segStart, quantStep) ==
    LET q == [k \in 1..Len(seg) |->
                <<quantizeChannel(seg[k][1], quantStep),
                  quantizeChannel(seg[k][2], quantStep),
                  quantizeChannel(seg[k][3], quantStep)>>]
        starts == sortedSeqOf({1} \cup {k \in 2..Len(seg) : q[k] # q[k - 1]})
    IN  [r \in 1..Len(starts) |->
            [start |-> segStart + starts[r] - 1,
             length |-> (IF r < Len(starts) THEN starts[r + 1] ELSE Len(seg) + 1)
                        - starts[r],
             color |-> q[starts[r]]]]

smoothStepMutNoGrowth(st, runs) ==
    LET run == runs[st.idx]
        absorbed ==
            /\ run.length = 1
            /\ st.idx - 1 >= 1
            /\ st.idx + 1 <= Len(runs)
            /\ runs[st.idx - 1].color = runs[st.idx + 1].color
    IN  [idx |-> st.idx + 1,
         smoothed |-> IF absorbed THEN st.smoothed ELSE Append(st.smoothed, run)]

\* One run of the smoothing pass: st = [idx, smoothed], idx counted from 1.
smoothStep(st, runs) ==
    LET run == runs[st.idx]
        absorbed ==
            /\ run.length = 1
            /\ st.idx - 1 >= 1
            /\ st.idx + 1 <= Len(runs)
            /\ runs[st.idx - 1].color = runs[st.idx + 1].color
        n == Len(st.smoothed)
    IN  [idx |-> st.idx + 1,
         smoothed |->
            IF absorbed
            THEN IF n > 0
                 THEN [st.smoothed EXCEPT ![n].length = @ + 1]
                 ELSE <<[start |-> run.start, length |-> run.length,
                         color |-> runs[st.idx - 1].color]>>
            ELSE Append(st.smoothed, run)]

smoothRuns(runs) ==
    IF Len(runs) >= 3
    THEN Loop(LAMBDA st : smoothStep(st, runs),
              LAMBDA st : st.idx > Len(runs),
              [idx |-> 1, smoothed |-> <<>>],
              Log2Ceil(Len(runs))).smoothed
    ELSE runs

getRunLengths(strip, quantStep, alphaThreshold) ==
    LET n == Len(strip)
        opaque(i) == strip[i][4] >= alphaThreshold
        segStarts == sortedSeqOf({i \in 1..n : opaque(i) /\ (i = 1 \/ ~opaque(i - 1))})
        segEnd(i) == SetMin({j \in i..n : j = n \/ ~opaque(j + 1)})
    IN  [s \in 1..Len(segStarts) |->
            (CHOOSE v_ \in { [start |-> i - 1,
                    runs |-> smoothRuns(runsOf(SubSeq(strip, i, segEnd(i)), i - 1,
                                               quantStep))]
                   : i \in {segStarts[s]} } : TRUE)]

\* dominantBackground: the colours, most frequent first (the first seen
\* first among equals), taken until they cover 70% of the bitmap or there
\* are eight of them: the set of the chosen colours.
dominantBackground(src) ==
    LET totalPx == src.width * src.height
        keyAt(p) == rgbOf(src.data[p])
        keys == {keyAt(p) : p \in 1..totalPx}
        count(k) == Cardinality({p \in 1..totalPx : keyAt(p) = k})
        first(k) == SetMin({p \in 1..totalPx : keyAt(p) = k})
        before(a, b) == count(a) > count(b) \/ (count(a) = count(b) /\ first(a) < first(b))
        rank(k) == Cardinality({j \in keys : before(j, k)}) + 1
        covered(n) == Cardinality({p \in 1..totalPx : rank(keyAt(p)) <= n})
        taken == SetMin({n \in 1..Cardinality(keys) :
                           \/ n = Cardinality(keys)
                           \/ n >= 8
                           \/ 10 * covered(n) >= 7 * totalPx})
    IN  {k \in keys : rank(k) <= taken}

maskBackgroundByKeys(src, bgKeySet) ==
    [src EXCEPT !.data =
        [p \in 1..Len(src.data) |->
            IF rgbOf(src.data[p]) \in bgKeySet
            THEN <<src.data[p][1], src.data[p][2], src.data[p][3], 0>>
            ELSE src.data[p]]]

\* One candidate line of pickDenseStrips: st = [k, picked], k the position
\* in the list of lines sorted by score; a break moves k past the list.
pickStep(st, order, score, minSep, count) ==
    LET idx == order[st.k]
    IN  IF score[idx + 1] <= 0 THEN [st EXCEPT !.k = Len(order) + 1]
        ELSE IF \A i \in 1..Len(st.picked) : Abs(st.picked[i] - idx) >= minSep
        THEN [k |-> IF Len(st.picked) + 1 >= count THEN Len(order) + 1 ELSE st.k + 1,
              picked |-> Append(st.picked, idx)]
        ELSE [st EXCEPT !.k = st.k + 1]

pickDenseStrips(masked, axis, count) ==
    LET len == IF axis = "y" THEN masked.height ELSE masked.width
        otherLen == IF axis = "y" THEN masked.width ELSE masked.height
        at(i, j) == IF axis = "y" THEN masked.data[i * masked.width + j + 1]
                    ELSE masked.data[j * masked.width + i + 1]
        minSep == Max2(1, len \div Max2(1, count * 6))
    IN  (CHOOSE v_ \in {
          (CHOOSE v_ \in {
            Loop(LAMBDA st : pickStep(st, order, score, minSep, count),
                 LAMBDA st : st.k > len,
                 [k |-> 1, picked |-> <<>>],
                 Log2Ceil(len)).picked
            : order \in {SortSeq([i \in 1..len |-> i - 1],
                                 LAMBDA a, b : score[a + 1] > score[b + 1]
                                     \/ (score[a + 1] = score[b + 1] /\ a < b))} } : TRUE)
          : score \in {[i \in 1..len |->
                          Cardinality({j \in 0..(otherLen - 1) : at(i - 1, j)[4] >= 16})]} } : TRUE)

\* math.ts: twice the median (the median of integers is a multiple of 1/2)
computeMedian(values) ==
    (CHOOSE v_ \in { IF Len(sorted) = 0 THEN 0
           ELSE IF Len(sorted) % 2 = 0
           THEN sorted[Len(sorted) \div 2] + sorted[(Len(sorted) \div 2) + 1]
           ELSE 2 * sorted[(Len(sorted) \div 2) + 1]
           : sorted \in {sortAscending(values)} } : TRUE)

\* math.ts: ten times the 90th percentile.  idx = 0.9 * (n - 1) is taken
\* exactly, in tenths.
computePercentile90(values) ==
    (CHOOSE v_ \in { LET idx10 == 9 * (Len(sorted) - 1)
               lo == idx10 \div 10
               t10 == idx10 % 10
           IN  IF Len(sorted) = 0 THEN 0
               ELSE IF t10 = 0 THEN 10 * sorted[lo + 1]
               ELSE sorted[lo + 1] * (10 - t10) + sorted[lo + 2] * t10
           : sorted \in {sortAscending(values)} } : TRUE)

(***************************************************************************)
(* The estimators' scores are kept in fixed point, ScoreUnit to the unit:  *)
(* p50 is a multiple of 1/2, 0.35 * p90 one of 0.035, the penalties are    *)
(* integers, and 0.25 * log1p(n) is rounded to the nearest 1/ScoreUnit.    *)
(* Two scores compare as the doubles do unless they differ by less than    *)
(* the rounding of the logarithm.                                          *)
(***************************************************************************)
ScoreUnit == 4 * 1000000

\* Math.log1p(n) in millionths, for the counts a small bitmap can give
log1pMicro(n) ==
    <<0, 693147, 1098612, 1386294, 1609438, 1791759, 1945910, 2079442,
      2197225, 2302585, 2397895, 2484907, 2564949, 2639057, 2708050,
      2772589, 2833213>>[n + 1]

RECURSIVE concatRange(_, _, _)
concatRange(seqs, lo, hi) ==
    IF lo > hi THEN <<>>
    ELSE IF lo = hi THEN seqs[lo]
    ELSE concatRange(seqs, lo, (lo + hi) \div 2)
         \o concatRange(seqs, ((lo + hi) \div 2) + 1, hi)

concatAll(seqs) == (CHOOSE v_ \in { concatRange(all, 1, Len(all)) : all \in {seqs} } : TRUE)

collectRunsMutAll(runs) ==
    [runLengths |-> SelectSeq([i \in 1..Len(runs) |-> runs[i].length], LAMBDA l : l >= 2),
     boundaries |-> [i \in 1..Len(runs) |-> runs[i].start]]

\* collectBoundaryData, for the runs of one segment
collectRuns(runs) ==
    [runLengths |-> SelectSeq([i \in 1..Len(runs) |-> runs[i].length], LAMBDA l : l >= 2),
     boundaries |-> [i \in 1..(Len(runs) - 1) |-> runs[i + 1].start]]

collectBoundaryData(segLists) ==
    (CHOOSE v_ \in { [runLengths |-> concatAll([i \in 1..Len(all) |-> collectRuns(all[i].runs).runLengths]),
            boundaries |-> concatAll([i \in 1..Len(all) |-> collectRuns(all[i].runs).boundaries])]
           : all \in {concatAll(segLists)} } : TRUE)

\* isFgAt of buildScanlineBoundaryData: a read past the end of the bytes
\* gives undefined, a key no background colour has
isFgAt(det, axis, line, pos, bgKeySet) ==
    LET p == IF axis = "x" THEN line * det.width + pos ELSE pos * det.width + line
    IN  IF p >= Len(det.data) THEN 1
        ELSE IF rgbOf(det.data[p + 1]) \in bgKeySet THEN 0 ELSE 1

\* buildScanlineBoundaryData, for one line
scanLine(det, axis, line, bgKeySet) ==
    LET len == IF axis = "x" THEN det.width ELSE det.height
    IN  (CHOOSE v_ \in {
          (CHOOSE v_ \in { [runLengths |->
                    SelectSeq([r \in 1..Len(starts) |->
                                  (IF r < Len(starts) THEN starts[r + 1] ELSE len)
                                  - starts[r]],
                              LAMBDA l : l >= 2),
                  boundaries |-> SubSeq(starts, 2, Len(starts))]
                 : starts \in {sortedSeqOf({0} \cup {i \in 1..(len - 1) : v[i + 1] # v[i]})} } : TRUE)
          : v \in {[i \in 1..len |-> isFgAt(det, axis, line, i - 1, bgKeySet)]} } : TRUE)

buildScanlineBoundaryData(det, axis, lines, bgKeySet) ==
    (CHOOSE v_ \in { [runLengths |-> concatAll([i \in 1..Len(per) |-> per[i].runLengths]),
            boundaries |-> concatAll([i \in 1..Len(per) |-> per[i].boundaries])]
           : per \in {[i \in 1..Len(lines) |-> scanLine(det, axis, lines[i], bgKeySet)]} } : TRUE)

MaxCell == 256

\* counts[v] of the estimators, v in 0..maxLen
runCount(runLengths, maxLen, v) ==
    Cardinality({i \in 1..Len(runLengths) : Min2(maxLen, Max2(0, runLengths[i])) = v})

\* candidateSizes in insertion order: the run lengths seen, then for each
\* expected number of cells the size it gives and its two neighbours
candidateSizes(runLengths, maxLen, length, expectedCellsMin, expectedCellsMax) ==
    LET fromCounts == {s \in 2..maxLen : runCount(runLengths, maxLen, s) > 0}
        ok(s) == s >= 2 /\ s <= MaxCell
        cellsRange == expectedCellsMin..expectedCellsMax
        tried(cells) == <<roundDiv(length, cells), roundDiv(length, cells) - 1,
                          roundDiv(length, cells) + 1>>
        fromCells == UNION {{tried(cells)[j] : j \in 1..3} : cells \in cellsRange}
        \* the place of s in the order of insertion
        place(s) ==
            IF s \in fromCounts THEN s
            ELSE LET cells == SetMin({c \in cellsRange : \E j \in 1..3 : tried(c)[j] = s})
                     j == SetMin({i \in 1..3 : tried(cells)[i] = s})
                 IN  MaxCell + 3 * (cells - expectedCellsMin) + j
        all == fromCounts \cup {s \in fromCells : ok(s)}
    IN  SortSeq([k \in 1..Cardinality(all) |-> sortedSeqOf(all)[k]],
                LAMBDA a, b : place(a) < place(b))

deviationsOf(boundaries, s, off) ==
    [i \in 1..Len(boundaries) |->
        LET r == (((boundaries[i] - off) % s) + s) % s
        IN  Min2(r, s - r)]

\* One candidate size of an estimator: [ok, cellSize, offset, score], ok
\* FALSE for the `continue`.
scoreCandidate(s, runLengths, boundaries, maxLen, length,
               expectedCellsMin, expectedCellsMax) ==
    (CHOOSE v_ \in {
      LET bestFit == SetMin({fits[i] : i \in 1..s})
          bestOff == SetMin({i \in 1..s : fits[i] = bestFit}) - 1
          deviations == deviationsOf(boundaries, s, bestOff)
          p50 == computeMedian(deviations)
          p90 == computePercentile90(deviations)
          cells == (length - bestOff) \div s
          penalty == (IF cells < expectedCellsMin THEN (expectedCellsMin - cells) * 5 ELSE 0)
                     + (IF cells > expectedCellsMax THEN (cells - expectedCellsMax) * 5 ELSE 0)
          count == IF s <= maxLen THEN runCount(runLengths, maxLen, s) ELSE 0
      IN  IF cells <= 0 THEN [ok |-> FALSE]
          ELSE [ok |-> TRUE, cellSize |-> s, offset |-> bestOff,
                score |-> p50 * (ScoreUnit \div 2)
                          + p90 * ((35 * ScoreUnit) \div 1000)
                          + penalty * ScoreUnit
                          - log1pMicro(count)]
      : fits \in {[i \in 1..s |-> computeMedian(deviationsOf(boundaries, s, i - 1))]} } : TRUE)

Eps == (35 * ScoreUnit) \div 100

\* `best` after one more candidate, by the rule of estimateFromSegments
betterBySegments(best, c) ==
    IF ~c.ok THEN best
    ELSE IF ~best.ok THEN c
    ELSE IF c.score < best.score - Eps THEN c
    ELSE IF Abs(c.score - best.score) <= Eps /\ c.cellSize > best.cellSize THEN c
    ELSE best

\* `best` after one more candidate, by the rule of estimateFromBoundaryData
betterByBoundaries(best, c) ==
    IF ~c.ok THEN best
    ELSE IF ~best.ok \/ c.score < best.score THEN c
    ELSE best

\* The body both estimators share; bySegments chooses the rule for `best`.
estimateFrom(data, length, expectedCellsMin, expectedCellsMax, bySegments) ==
    IF Len(data.runLengths) < 2 \/ Len(data.boundaries) < 2 THEN [ok |-> FALSE]
    ELSE (CHOOSE v_ \in {
      IF maxLen < 2 THEN [ok |-> FALSE]
      ELSE (CHOOSE v_ \in {
        IF Len(candidates) = 0 THEN [ok |-> FALSE]
        ELSE Loop(LAMBDA st :
                    (CHOOSE v_ \in { [k |-> st.k + 1,
                            best |-> IF bySegments THEN betterBySegments(st.best, c)
                                     ELSE betterByBoundaries(st.best, c)]
                           : c \in {scoreCandidate(candidates[st.k], data.runLengths,
                                       data.boundaries, maxLen, length,
                                       expectedCellsMin, expectedCellsMax)} } : TRUE),
                  LAMBDA st : st.k > Len(candidates),
                  [k |-> 1, best |-> [ok |-> FALSE]],
                  Log2Ceil(Len(candidates))).best
        : candidates \in {candidateSizes(data.runLengths, maxLen, length,
                                         expectedCellsMin, expectedCellsMax)} } : TRUE)
      : maxLen \in {Min2(MaxCell, SetMax({data.runLengths[i] : i \in 1..Len(data.runLengths)}))} } : TRUE)

estimateFromSegments(segLists, length, expectedCellsMin, expectedCellsMax) ==
    estimateFrom(collectBoundaryData(segLists), length,
                 expectedCellsMin, expectedCellsMax, TRUE)

estimateFromBoundaryData(data, length, expectedCellsMin, expectedCellsMax) ==
    estimateFrom(data, length, expectedCellsMin, expectedCellsMax, FALSE)

\* One axis of detectGrid: the strips, the estimate and the retry.  axis
\* "x" estimates the cell width from rows, axis "y" the height from columns.
axisEstimate(det, axis, opts) ==
    LET w == det.width
        h == det.height
        length == IF axis = "x" THEN w ELSE h
        across == IF axis = "x" THEN h ELSE w
        stripAxis == IF axis = "x" THEN "y" ELSE "x"
        expMin == 8
        expMax == IF axis = "x" THEN opts.autoMaxCellsW ELSE opts.autoMaxCellsH
        fallback == <<roundDiv(across, 3), roundDiv(2 * across, 3)>>
    IN  (CHOOSE v_ \in {
          (CHOOSE v_ \in {
            (CHOOSE v_ \in {
              (CHOOSE v_ \in {
                IF ~est.ok THEN est
                ELSE IF (length - est.offset) \div est.cellSize <= 96 THEN est
                ELSE (CHOOSE v_ \in { IF retry.ok THEN retry ELSE est
                            : retry \in {estimateFromSegments(segLists, length, expMin, 64)} } : TRUE)
                : est \in {
                    IF opts.backgroundMask
                    THEN (CHOOSE v_ \in { IF byData.ok THEN byData
                                ELSE estimateFromSegments(segLists, length, expMin, expMax)
                                : byData \in {estimateFromBoundaryData(
                                      buildScanlineBoundaryData(det, axis, lines, bgKeySet),
                                      length, expMin, expMax)} } : TRUE)
                    ELSE estimateFromSegments(segLists, length, expMin, expMax)} } : TRUE)
              : segLists \in {[i \in 1..Len(lines) |->
                                 getRunLengths(extractStrip(det, stripAxis, lines[i]),
                                               opts.detectionQuantStep, 16)]} } : TRUE)
            : lines \in {(CHOOSE v_ \in { IF Len(picked) > 0 THEN picked ELSE fallback
                                : picked \in {pickDenseStrips(
                                      IF opts.backgroundMask
                                      THEN maskBackgroundByKeys(det, bgKeySet) ELSE det,
                                      stripAxis, opts.detectionStrips)} } : TRUE)} } : TRUE)
          : bgKeySet \in {IF opts.backgroundMask THEN dominantBackground(det) ELSE {}} } : TRUE)

\* detectGrid: [threw |-> TRUE] for the Error, else the grid.  The options
\* are the values after their `??` defaults.  A grid's score is kept in
\* units of 1 / (2 * ScoreUnit).
detectGrid(img, opts) ==
    (CHOOSE v_ \in {
      (CHOOSE v_ \in {
        IF ~finalX.ok \/ ~finalY.ok THEN [threw |-> TRUE]
        ELSE LET cellW == Max2(1, finalX.cellSize)
                 cellH == Max2(1, finalY.cellSize)
                 offsetX == ((finalX.offset % cellW) + cellW) % cellW
                 offsetY == ((finalY.offset % cellH) + cellH) % cellH
                 outW == Max2(1, (img.width - offsetX) \div cellW)
                 outH == Max2(1, (img.height - offsetY) \div cellH)
             IN  [threw |-> FALSE,
                  grid |-> [cellW |-> F(cellW), cellH |-> F(cellH),
                            offsetX |-> offsetX, offsetY |-> offsetY,
                            score |-> finalX.score + finalY.score,
                            cropX |-> F(offsetX), cropY |-> F(offsetY),
                            cropW |-> F(outW * cellW), cropH |-> F(outH * cellH),
                            outW |-> outW, outH |-> outH]]
        : finalX \in {axisEstimate(det, "x", opts)},
          finalY \in {axisEstimate(det, "y", opts)} } : TRUE)
      : det \in {posterize(img, opts.detectionQuantStep)} } : TRUE)

(***************************************************************************)
(* outline.ts: processImage.  The call runs without interruption except    *)
(* where it calls the caller's debugHook, so it is cut at those calls: a   *)
(* segment is the code between two of them, working on                     *)
(* s = [pc, mem, loc, ret].  A hook is taken to leave the bitmap it is     *)
(* shown alone; it returns or it throws.                                   *)
(***************************************************************************)
normalizeProcessOptions(raw) ==
    [detect |-> [detectionQuantStep |->
                    clampInt(orDefault(raw.detectionQuantStep,
                                       DetectionQuantStepRange.default),
                             DetectionQuantStepRange),
                 autoMaxCellsW |-> 128, autoMaxCellsH |-> 128,
                 detectionStrips |-> 12,
                 backgroundMask |-> raw.backgroundMask],
     preRemoveBackground |-> raw.preRemoveBackground,
     postRemoveBackground |-> raw.postRemoveBackground,
     forcePixelsW |-> clampOptionalInt(raw.forcePixelsW, ForcePixelsRange),
     forcePixelsH |-> clampOptionalInt(raw.forcePixelsH, ForcePixelsRange),
     removeInnerBackground |-> raw.removeInnerBackground,
     backgroundTolerance |->
        clampInt(orDefault(raw.backgroundTolerance, BackgroundToleranceRange.default),
                 BackgroundToleranceRange),
     sampleWindow |->
        clampInt(orDefault(raw.sampleWindow, SampleWindowRange.default),
                 SampleWindowRange),
     trimToContent |-> raw.trimToContent,
     trimAlphaThreshold |->
        clampInt(orDefault(raw.trimAlphaThreshold, TrimAlphaThresholdRange.default),
                 TrimAlphaThresholdRange),
     autoGridFromTrimmed |-> raw.autoGridFromTrimmed,
     fastAutoGridFromTrimmed |-> raw.fastAutoGridFromTrimmed,
     enableGridDetection |-> raw.enableGridDetection,
     reduceColors |-> raw.reduceColors,
     reduceColorMode |-> raw.reduceColorMode,
     colorCount |->
        clampInt(orDefault(raw.colorCount, ColorCountRange.default), ColorCountRange),
     ignoreFloatingContent |-> raw.ignoreFloatingContent,
     floatingMaxPixels |->
        clampInt(orDefault(raw.floatingMaxPixels, FloatingMaxPixelsRange.default),
                 FloatingMaxPixelsRange),
     bgExtractionMethod |-> raw.bgExtractionMethod,
     bgRgb |-> raw.bgRgb,
     debugHook |-> raw.debugHook]

InputRef(img) == [width |-> img.width, height |-> img.height, buf |-> "input"]

\* s with its pc moved and some locals assigned
Goto(s, label, fields) == [s EXCEPT !.pc = label, !.loc = fields @@ s.loc]

\* an Error leaves processImage: only the argument stays alive
Throw(s, error) ==
    [s EXCEPT !.pc = "done", !.ret = [status |-> "error", error |-> error],
              !.mem = [b \in {"input"} |-> s.mem[b]]]

Nothing == [f \in {} |-> 0]

\* the six arguments every removeBackground call of processImage shares
removeBackgroundOf(s, o, img, site) ==
    removeBackground(s.mem, img, o.backgroundTolerance, o.removeInnerBackground,
                     s.loc.bgTargets, o.bgExtractionMethod, o.bgRgb, site)

\* removeSmallFloatingComponentsInPlace on two buffers of the heap
removeFloatingOf(mem, o, working, masked) ==
    (CHOOSE v_ \in { [mem |-> Store(Store(mem, working, r.working.data), masked, r.masked.data),
            removedPixels |-> r.removedPixels]
           : r \in {removeSmallFloatingComponentsInPlace(
                        Img(mem, working), Img(mem, masked),
                        o.trimAlphaThreshold, o.floatingMaxPixels)} } : TRUE)

\* lines 1125-1156: the options, the background targets, the working copy
segStart(s, o, img) ==
    (CHOOSE v_ \in {
      Goto([s EXCEPT !.mem = w.mem], "tap00",
           [bgTargets |-> IF o.removeInnerBackground
                          THEN getBackgroundTargets(Img(s.mem, img),
                                   o.bgExtractionMethod, o.bgRgb, 16)
                          ELSE <<>>,
            working |-> w.img])
      : w \in {IF o.preRemoveBackground
               THEN removeBackgroundByFloodFill(s.mem, img, o.backgroundTolerance,
                        o.bgExtractionMethod, o.bgRgb, "working")
               ELSE cloneImage(s.mem, img, "working")} } : TRUE)

\* lines 1169, 1290: which of the three branches; loc.branch keeps the choice
segBranch(s, o) ==
    IF o.forcePixelsW.k # "undefined" /\ o.forcePixelsH.k # "undefined"
    THEN Goto(s, "forcedMask", [branch |-> "forced"])
    ELSE IF ~o.enableGridDetection THEN Goto(s, "disabled", [branch |-> "disabled"])
    ELSE Goto(s, "autoMask", [branch |-> "auto"])

\* the mask and the removal of floating content (1170-1200, 1375-1414)
maskAndFloating(s, o, needMask, tap01b, tap02) ==
    IF ~needMask THEN Goto(s, tap02, [hasMasked |-> FALSE, removedPixels |-> 0])
    ELSE (CHOOSE v_ \in {
      IF ~o.ignoreFloatingContent
      THEN Goto([s EXCEPT !.mem = m.mem], tap02,
                [masked |-> m.img, hasMasked |-> TRUE, removedPixels |-> 0])
      ELSE (CHOOSE v_ \in {
             Goto([s EXCEPT !.mem = r.mem],
                  IF r.removedPixels > 0 THEN tap01b ELSE tap02,
                  [masked |-> m.img, hasMasked |-> TRUE,
                   removedPixels |-> r.removedPixels])
             : r \in {removeFloatingOf(m.mem, o, s.loc.working, m.img)} } : TRUE)
      : m \in {removeBackgroundOf(s, o, s.loc.working, "masked")} } : TRUE)

segForcedMask(s, o) == maskAndFloating(s, o, TRUE, "forced01b", "forced02")

segForcedBoundsMutNoThrow(s, o) ==
    (CHOOSE v_ \in {
      IF ~b.found THEN Goto(s, "forced03", [bounds |-> b, cropped |-> s.loc.working])
      ELSE (CHOOSE v_ \in { Goto([s EXCEPT !.mem = c.mem], "forced03",
                       [bounds |-> b, cropped |-> c.img])
                  : c \in {Alloc(s.mem, "cropped",
                                 cropRawImage(Img(s.mem, s.loc.working),
                                              b.x, b.y, b.w, b.h))} } : TRUE)
      : b \in {findOpaqueBounds(Img(s.mem, s.loc.masked), o.trimAlphaThreshold)} } : TRUE)

\* lines 1206-1214
segForcedBounds(s, o) ==
    (CHOOSE v_ \in {
      IF ~b.found THEN Throw(s, "ContentNotFound")
      ELSE (CHOOSE v_ \in { Goto([s EXCEPT !.mem = c.mem], "forced03",
                       [bounds |-> b, cropped |-> c.img])
                  : c \in {Alloc(s.mem, "cropped",
                                 cropRawImage(Img(s.mem, s.loc.working),
                                              b.x, b.y, b.w, b.h))} } : TRUE)
      : b \in {findOpaqueBounds(Img(s.mem, s.loc.masked), o.trimAlphaThreshold)} } : TRUE)

segForcedDownsampleMutInverse(s, o) ==
    (CHOOSE v_ \in {
      (CHOOSE v_ \in { Goto([s EXCEPT !.mem = d.mem], "forced05", [grid |-> g, down |-> d.img])
             : d \in {Alloc(s.mem, "down",
                            downsample(Img(s.mem, s.loc.cropped), g,
                                       IF flt(g.cellW, F(1)) \/ flt(g.cellH, F(1))
                                       THEN 1 ELSE o.sampleWindow))} } : TRUE)
      : g \in {[cellW |-> fdiv(F(o.forcePixelsW.h2 \div 2), F(s.loc.cropped.width)),
                cellH |-> fdiv(F(o.forcePixelsH.h2 \div 2), F(s.loc.cropped.height)),
                offsetX |-> 0, offsetY |-> 0,
                outW |-> o.forcePixelsW.h2 \div 2, outH |-> o.forcePixelsH.h2 \div 2,
                cropX |-> F(0), cropY |-> F(0),
                cropW |-> F(s.loc.cropped.width), cropH |-> F(s.loc.cropped.height),
                score |-> 0]} } : TRUE)

\* lines 1220-1244
segForcedDownsample(s, o) ==
    (CHOOSE v_ \in {
      (CHOOSE v_ \in { Goto([s EXCEPT !.mem = d.mem], "forced05", [grid |-> g, down |-> d.img])
             : d \in {Alloc(s.mem, "down",
                            downsample(Img(s.mem, s.loc.cropped), g,
                                       IF flt(g.cellW, F(1)) \/ flt(g.cellH, F(1))
                                       THEN 1 ELSE o.sampleWindow))} } : TRUE)
      : g \in {[cellW |-> fdiv(F(s.loc.cropped.width), F(o.forcePixelsW.h2 \div 2)),
                cellH |-> fdiv(F(s.loc.cropped.height), F(o.forcePixelsH.h2 \div 2)),
                offsetX |-> 0, offsetY |-> 0,
                outW |-> o.forcePixelsW.h2 \div 2, outH |-> o.forcePixelsH.h2 \div 2,
                cropX |-> F(0), cropY |-> F(0),
                cropW |-> F(s.loc.cropped.width), cropH |-> F(s.loc.cropped.height),
                score |-> 0]} } : TRUE)

\* the post-removal of the background and the colour reduction
\* (1254-1277, 1340-1360, 1550-1573)
postAndReduce(s, o, img, label) ==
    (CHOOSE v_ \in {
      IF ~o.reduceColors THEN Goto([s EXCEPT !.mem = r.mem], label, [result |-> r.img])
      ELSE (CHOOSE v_ \in { Goto([s EXCEPT !.mem = f.mem], label, [result |-> f.img])
                  : f \in {Alloc(r.mem, "reduced",
                                 applyColorReduction(Img(r.mem, r.img),
                                     o.reduceColorMode, o.colorCount))} } : TRUE)
      : r \in {IF o.postRemoveBackground THEN removeBackgroundOf(s, o, img, "post")
               ELSE [mem |-> s.mem, img |-> img]} } : TRUE)

segForcedPost(s, o) == postAndReduce(s, o, s.loc.down, "forced99")

\* lines 1291-1366
segDisabled(s, o) ==
    (CHOOSE v_ \in {
      (CHOOSE v_ \in {
        (CHOOSE v_ \in {
          postAndReduce(
            Goto([s EXCEPT !.mem = c.mem], "disabled",
                 [grid |-> [cellW |-> F(1), cellH |-> F(1), offsetX |-> 0, offsetY |-> 0,
                            outW |-> c.img.width, outH |-> c.img.height,
                            cropX |-> F(IF b.found THEN b.x ELSE 0),
                            cropY |-> F(IF b.found THEN b.y ELSE 0),
                            cropW |-> F(c.img.width), cropH |-> F(c.img.height),
                            score |-> 2 * ScoreUnit]]),
            o, c.img, "return")
          : c \in {IF b.found
                   THEN Alloc(m.mem, "cropped",
                              cropRawImage(Img(m.mem, m.loc.working), b.x, b.y, b.w, b.h))
                   ELSE [mem |-> m.mem, img |-> m.loc.working]} } : TRUE)
        : b \in {IF o.trimToContent
                 THEN findOpaqueBounds(Img(m.mem, m.loc.masked), o.trimAlphaThreshold)
                 ELSE NoBounds} } : TRUE)
      : m \in {maskAndFloating(s, o, TRUE, "disabled", "disabled")} } : TRUE)

segAutoMask(s, o) ==
    maskAndFloating(s, o,
                    o.debugHook \/ o.autoGridFromTrimmed \/ o.ignoreFloatingContent,
                    "auto01b", "auto02")

\* lines 1419-1421, run only with a hook
segAutoDebugBounds(s, o) ==
    IF ~(s.loc.hasMasked /\ o.debugHook) THEN Goto(s, "autoSearch", Nothing)
    ELSE (CHOOSE v_ \in {
      IF ~b.found THEN Goto(s, "autoSearch", Nothing)
      ELSE (CHOOSE v_ \in { Goto([s EXCEPT !.mem = c.mem], "auto03debug", [debugCropped |-> c.img])
                  : c \in {Alloc(s.mem, "debugCropped",
                                 cropRawImage(Img(s.mem, s.loc.working),
                                              b.x, b.y, b.w, b.h))} } : TRUE)
      : b \in {findOpaqueBounds(Img(s.mem, s.loc.masked), o.trimAlphaThreshold)} } : TRUE)

\* lines 1428-1439
segAutoSearch(s, o) ==
    IF ~(o.autoGridFromTrimmed /\ s.loc.hasMasked) THEN Goto(s, "autoDetect", Nothing)
    ELSE (CHOOSE v_ \in {
      IF ~b.found THEN Goto(s, "autoDetect", Nothing)
      ELSE (CHOOSE v_ \in {
             (CHOOSE v_ \in { Goto([s EXCEPT !.mem = cm.mem], "auto03",
                         [bounds |-> b, cropped |-> c.img, croppedMask |-> cm.img])
                    : cm \in {Alloc(c.mem, "croppedMask",
                                    cropRawImage(Img(c.mem, s.loc.masked),
                                                 b.x, b.y, b.w, b.h))} } : TRUE)
             : c \in {Alloc(s.mem, "cropped",
                            cropRawImage(Img(s.mem, s.loc.working),
                                         b.x, b.y, b.w, b.h))} } : TRUE)
      : b \in {findOpaqueBounds(Img(s.mem, s.loc.masked), o.trimAlphaThreshold)} } : TRUE)

\* lines 1444-1473
segAutoEstimate(s, o) ==
    (CHOOSE v_ \in {
      IF ~est.found THEN Goto(s, "autoDetect", Nothing)
      ELSE (CHOOSE v_ \in {
             Goto(s, "auto04trimmed",
                  [grid |-> [cellW |-> est.cellW, cellH |-> est.cellH,
                             offsetX |-> 0, offsetY |-> 0,
                             outW |-> out.w, outH |-> out.h,
                             cropX |-> F(0), cropY |-> F(0),
                             cropW |-> fmul(F(out.w), est.cellW),
                             cropH |-> fmul(F(out.h), est.cellH),
                             score |-> 0]])
             : out \in {[w |-> Max2(1, mathFloor(fdiv(F(s.loc.working.width), est.cellW))),
                         h |-> Max2(1, mathFloor(fdiv(F(s.loc.working.height), est.cellH)))]} } : TRUE)
      : est \in {searchGridFromTrimmed(o.fastAutoGridFromTrimmed,
                                       Img(s.mem, s.loc.cropped),
                                       Img(s.mem, s.loc.croppedMask),
                                       o.sampleWindow)} } : TRUE)

\* lines 1483-1489
segAutoDetect(s, o) ==
    (CHOOSE v_ \in { IF d.threw THEN Throw(s, "GridDetectionFailed")
           ELSE Goto(s, "auto04", [grid |-> d.grid])
           : d \in {detectGrid(Img(s.mem, s.loc.working), o.detect)} } : TRUE)

\* line 1496
segAutoDownsample(s, o) ==
    (CHOOSE v_ \in { Goto([s EXCEPT !.mem = d.mem], "auto05", [down |-> d.img])
           : d \in {Alloc(s.mem, "down",
                          downsample(Img(s.mem, s.loc.working), s.loc.grid,
                                     o.sampleWindow))} } : TRUE)

\* lines 1504-1518
segAutoTrimMask(s, o) ==
    IF ~o.trimToContent THEN Goto(s, "autoPost", [trimmed |-> s.loc.down])
    ELSE (CHOOSE v_ \in { Goto([s EXCEPT !.mem = m.mem], "auto06", [postMasked |-> m.img])
                : m \in {removeBackgroundOf(s, o, s.loc.down, "postMasked")} } : TRUE)

\* lines 1520-1525
segAutoTrimBounds(s, o) ==
    (CHOOSE v_ \in {
      IF b.found /\ (b.x # 0 \/ b.y # 0 \/ b.w # s.loc.down.width
                     \/ b.h # s.loc.down.height)
      THEN (CHOOSE v_ \in { Goto([s EXCEPT !.mem = t.mem], "auto07",
                       [trimmed |-> t.img, bounds |-> b])
                  : t \in {Alloc(s.mem, "trimmed",
                                 cropRawImage(Img(s.mem, s.loc.down),
                                              b.x, b.y, b.w, b.h))} } : TRUE)
      ELSE Goto(s, "autoPost", [trimmed |-> s.loc.down])
      : b \in {findOpaqueBounds(Img(s.mem, s.loc.postMasked), o.trimAlphaThreshold)} } : TRUE)

segAutoTrimGridMutKeepOut(s, o) ==
    LET g == s.loc.grid
        b == s.loc.bounds
    IN  Goto(s, "autoPost",
             [grid |-> [g EXCEPT !.cropX = fadd(g.cropX, fmul(F(b.x), g.cellW)),
                           !.cropY = fadd(g.cropY, fmul(F(b.y), g.cellH)),
                           !.cropW = fmul(F(b.w), g.cellW),
                           !.cropH = fmul(F(b.h), g.cellH)]])

\* lines 1527-1537
segAutoTrimGrid(s, o) ==
    LET g == s.loc.grid
        b == s.loc.bounds
    IN  Goto(s, "autoPost",
             [grid |-> [g EXCEPT !.outW = b.w, !.outH = b.h,
                           !.cropX = fadd(g.cropX, fmul(F(b.x), g.cellW)),
                           !.cropY = fadd(g.cropY, fmul(F(b.y), g.cellH)),
                           !.cropW = fmul(F(b.w), g.cellW),
                           !.cropH = fmul(F(b.h), g.cellH)]])

segAutoPost(s, o) == postAndReduce(s, o, s.loc.trimmed, "auto99")

\* lines 1286, 1366, 1581: only the argument and the result stay alive
segReturn(s) ==
    [s EXCEPT !.pc = "done",
              !.ret = [status |-> "done", result |-> s.loc.result, grid |-> s.loc.grid],
              !.mem = [b \in {"input", s.loc.result.buf} |-> s.mem[b]]]

TapNameMutSwapped ==
    [tap00 |-> "00-input", tap01 |-> "01-working",
     forced01b |-> "01b-working-ignore-floating",
     forced02 |-> "02-pre-downsample-masked",
     forced03 |-> "03-pre-downsample-bg-trimmed",
     forced05 |-> "05-downsampled", forced99 |-> "99-result",
     auto01b |-> "01b-working-ignore-floating",
     auto02 |-> "02-pre-downsample-masked",
     auto03debug |-> "03-pre-downsample-bg-trimmed",
     auto03 |-> "03-pre-downsample-bg-trimmed",
     auto04trimmed |-> "04-grid-crop", auto04 |-> "04-grid-crop",
     auto05 |-> "05-downsampled", auto06 |-> "07-trimmed",
     auto07 |-> "06-post-downsample-masked", auto99 |-> "99-result"]

\* the places where processImage calls the hook, and the stage shown there
TapName ==
    [tap00 |-> "00-input", tap01 |-> "01-working",
     forced01b |-> "01b-working-ignore-floating",
     forced02 |-> "02-pre-downsample-masked",
     forced03 |-> "03-pre-downsample-bg-trimmed",
     forced05 |-> "05-downsampled", forced99 |-> "99-result",
     auto01b |-> "01b-working-ignore-floating",
     auto02 |-> "02-pre-downsample-masked",
     auto03debug |-> "03-pre-downsample-bg-trimmed",
     auto03 |-> "03-pre-downsample-bg-trimmed",
     auto04trimmed |-> "04-grid-crop", auto04 |-> "04-grid-crop",
     auto05 |-> "05-downsampled", auto06 |-> "06-post-downsample-masked",
     auto07 |-> "07-trimmed", auto99 |-> "99-result"]

\* the segment that follows each of them
AfterTap ==
    [tap00 |-> "tap01", tap01 |-> "branch",
     forced01b |-> "forced02", forced02 |-> "forcedBounds",
     forced03 |-> "forcedDownsample", forced05 |-> "forcedPost",
     forced99 |-> "return",
     auto01b |-> "auto02", auto02 |-> "autoDebugBounds",
     auto03debug |-> "autoSearch", auto03 |-> "autoEstimate",
     auto04trimmed |-> "autoDownsample", auto04 |-> "autoDownsample",
     auto05 |-> "autoTrimMask", auto06 |-> "autoTrimBounds",
     auto07 |-> "autoTrimGrid", auto99 |-> "return"]

\* the local whose bitmap the hook is handed there ("input" for the argument)
TapImage ==
    [tap00 |-> "input", tap01 |-> "working",
     forced01b |-> "working", forced02 |-> "masked", forced03 |-> "cropped",
     forced05 |-> "down", forced99 |-> "result",
     auto01b |-> "working", auto02 |-> "masked",
     auto03debug |-> "debugCropped", auto03 |-> "cropped",
     auto04trimmed |-> "working", auto04 |-> "working",
     auto05 |-> "down", auto06 |-> "postMasked",
     auto07 |-> "trimmed", auto99 |-> "result"]

isTap(label) == label \in DOMAIN TapName

\* the locals after the hook was called at the tap label: loc.taps and
\* loc.shown keep the names and the bitmaps of the calls made so far
tapped(label, l, img) ==
    [l EXCEPT !.taps = Append(@, TapName[label]),
              !.shown = Append(@, IF TapImage[label] = "input" THEN img
                                  ELSE l[TapImage[label]])]

runSegment(s, o, img) ==
    CASE s.pc = "start" -> segStart(s, o, img)
      [] s.pc = "branch" -> segBranch(s, o)
      [] s.pc = "forcedMask" -> segForcedMask(s, o)
      [] s.pc = "forcedBounds" -> segForcedBounds(s, o)
      [] s.pc = "forcedDownsample" -> segForcedDownsample(s, o)
      [] s.pc = "forcedPost" -> segForcedPost(s, o)
      [] s.pc = "disabled" -> segDisabled(s, o)
      [] s.pc = "autoMask" -> segAutoMask(s, o)
      [] s.pc = "autoDebugBounds" -> segAutoDebugBounds(s, o)
      [] s.pc = "autoSearch" -> segAutoSearch(s, o)
      [] s.pc = "autoEstimate" -> segAutoEstimate(s, o)
      [] s.pc = "autoDetect" -> segAutoDetect(s, o)
      [] s.pc = "autoDownsample" -> segAutoDownsample(s, o)
      [] s.pc = "autoTrimMask" -> segAutoTrimMask(s, o)
      [] s.pc = "autoTrimBounds" -> segAutoTrimBounds(s, o)
      [] s.pc = "autoTrimGrid" -> segAutoTrimGrid(s, o)
      [] s.pc = "autoPost" -> segAutoPost(s, o)
      [] s.pc = "return" -> segReturn(s)

\* o.debugHook?.(...) without a hook is no call at all
skipTap(s) == [s EXCEPT !.pc = AfterTap[s.pc]]

\* processImage from s up to its next call of the hook, or to its end
runToHook(s0, o, img) ==
    Loop(LAMBDA s : IF isTap(s.pc) THEN skipTap(s) ELSE runSegment(s, o, img),
         LAMBDA s : s.pc = "done" \/ (isTap(s.pc) /\ o.debugHook),
         s0, 5)

(***************************************************************************)
(* Specification SpecProc: one call of processImage.                       *)
(***************************************************************************)
Opaque1 == <<10, 10, 10, 255>>
Opaque2 == <<200, 60, 10, 255>>
Clear == <<0, 0, 0, 0>>
ProcPixels == {Opaque1, Opaque2, Clear}

MaxBaseSide == 2
MaxImageSide == 4
MaxColours == 2
MaxChanged == 1

\* a bitmap drawn k times larger
upscale(base, k) ==
    [width |-> k * base.width, height |-> k * base.height,
     data |-> [p \in 1..(k * k * base.width * base.height) |->
                 base.data[(((p - 1) \div (k * base.width)) \div k) * base.width
                           + (((p - 1) % (k * base.width)) \div k) + 1]]]

\* every bitmap of at most MaxBaseSide x MaxBaseSide pixels and at most
\* MaxColours pixel values, at every scale that keeps it within
\* MaxImageSide x MaxImageSide
ProcImages ==
    UNION {{upscale(base, k) :
              k \in {j \in 1..MaxImageSide : /\ j * base.width <= MaxImageSide
                                             /\ j * base.height <= MaxImageSide}} :
           base \in {b \in ImagesOver((1..MaxBaseSide) \X (1..MaxBaseSide), ProcPixels) :
                       Cardinality({b.data[i] : i \in 1..Len(b.data)}) <= MaxColours}}

DefaultOptions ==
    [preRemoveBackground |-> TRUE, postRemoveBackground |-> TRUE,
     removeInnerBackground |-> FALSE, trimToContent |-> TRUE,
     autoGridFromTrimmed |-> TRUE, fastAutoGridFromTrimmed |-> TRUE,
     enableGridDetection |-> TRUE, reduceColors |-> FALSE,
     reduceColorMode |-> "none", ignoreFloatingContent |-> FALSE,
     floatingMaxPixels |-> OptUndefined, backgroundTolerance |-> OptUndefined,
     sampleWindow |-> OptUndefined, trimAlphaThreshold |-> OptUndefined,
     colorCount |-> OptUndefined, detectionQuantStep |-> OptUndefined,
     bgExtractionMethod |-> "top-left", bgRgb |-> <<>>,
     backgroundMask |-> TRUE, debugHook |-> FALSE,
     forcePixelsW |-> OptUndefined, forcePixelsH |-> OptUndefined]

\* the ways a caller departs from the defaults; a debugHook comes alone or
\* with one of the options that decide which stages it is shown, and the
\* grid detection is switched off alone or with one of the options its
\* branch reads
OptionChanges ==
    {[preRemoveBackground |-> FALSE], [postRemoveBackground |-> FALSE],
     [removeInnerBackground |-> TRUE], [trimToContent |-> FALSE],
     [autoGridFromTrimmed |-> FALSE], [fastAutoGridFromTrimmed |-> FALSE],
     [enableGridDetection |-> FALSE],
     [enableGridDetection |-> FALSE, trimToContent |-> FALSE],
     [enableGridDetection |-> FALSE, postRemoveBackground |-> FALSE],
     [enableGridDetection |-> FALSE, postRemoveBackground |-> FALSE,
      preRemoveBackground |-> FALSE],
     [enableGridDetection |-> FALSE, postRemoveBackground |-> FALSE,
      ignoreFloatingContent |-> TRUE, floatingMaxPixels |-> OptNum(2)],
     [enableGridDetection |-> FALSE, debugHook |-> TRUE],
     [reduceColors |-> TRUE, reduceColorMode |-> "sfc_sprite"],
     [reduceColors |-> TRUE, reduceColorMode |-> "auto"],
     [ignoreFloatingContent |-> TRUE, floatingMaxPixels |-> OptNum(2)],
     [bgExtractionMethod |-> "none"], [bgExtractionMethod |-> "bottom-right"],
     [bgExtractionMethod |-> "rgb", bgRgb |-> <<"#", "c", "8", "3", "c", "0", "a">>],
     [sampleWindow |-> OptNum(3)], [detectionQuantStep |-> OptNum(400)],
     [backgroundMask |-> FALSE],
     [debugHook |-> TRUE],
     [debugHook |-> TRUE, trimToContent |-> FALSE],
     [debugHook |-> TRUE, autoGridFromTrimmed |-> FALSE],
     [debugHook |-> TRUE, ignoreFloatingContent |-> TRUE,
      floatingMaxPixels |-> OptNum(2)]}

RECURSIVE optionsChanged(_)
optionsChanged(n) ==
    IF n = 0 THEN {DefaultOptions}
    ELSE optionsChanged(n - 1)
         \cup {c @@ opts : c \in OptionChanges, opts \in optionsChanged(n - 1)}

\* forcePixelsW and forcePixelsH as the caller gives them: neither, one of
\* them, one that is not a number, 3 x 2, and 0 x 2.5 (clamped to 1, cut to 2)
ForcePairs ==
    {<<OptUndefined, OptUndefined>>, <<OptNum(4), OptUndefined>>,
     <<OptNonFinite, OptNum(4)>>, <<OptNum(6), OptNum(4)>>,
     <<OptNum(0), OptNum(5)>>}

\* forced sizes far beyond the bitmap; they go with bitmaps of at most two
\* pixels and the default options
LargeForcePairs == {<<OptNum(98), OptNum(2)>>, <<OptNum(2), OptNum(98)>>}

ProcCalls ==
    {[fn |-> "processImage", img |-> im,
      options |-> [opts EXCEPT !.forcePixelsW = fp[1], !.forcePixelsH = fp[2]]] :
        im \in ProcImages, opts \in optionsChanged(MaxChanged), fp \in ForcePairs}
    \cup
    {[fn |-> "processImage", img |-> im,
      options |-> [DefaultOptions EXCEPT !.forcePixelsW = fp[1],
                                         !.forcePixelsH = fp[2]]] :
        im \in {i \in ProcImages : i.width * i.height <= 2}, fp \in LargeForcePairs}

InitProc ==
    /\ call \in ProcCalls
    /\ ret = Pending
    /\ pc = "start"
    /\ heap = [b \in {"input"} |-> call.img.data]
    /\ loc = NoLoc

Resume(s) ==
    /\ pc' = s.pc
    /\ heap' = s.mem
    /\ loc' = s.loc
    /\ ret' = s.ret
    /\ UNCHANGED call

\* processImage(img, options), up to its first call of the hook
CallProcessImage ==
    /\ call.fn = "processImage"
    /\ pc = "start"
    /\ \E s \in {runToHook([pc |-> pc, mem |-> heap, loc |-> loc, ret |-> ret],
                           normalizeProcessOptions(call.options),
                           InputRef(call.img))} : Resume(s)

\* the hook returns, and processImage runs on to its next call of the hook
HookReturns ==
    /\ call.fn = "processImage"
    /\ isTap(pc)
    /\ \E s \in {runToHook([pc |-> AfterTap[pc], mem |-> heap,
                            loc |-> tapped(pc, loc, InputRef(call.img)),
                            ret |-> ret],
                           normalizeProcessOptions(call.options),
                           InputRef(call.img))} : Resume(s)

\* the hook throws: nothing in processImage catches it
HookThrows ==
    /\ call.fn = "processImage"
    /\ isTap(pc)
    /\ Resume(Throw([pc |-> pc, mem |-> heap,
                     loc |-> tapped(pc, loc, InputRef(call.img)),
                     ret |-> ret], "HookError"))

NextProc == CallProcessImage \/ HookReturns \/ HookThrows

SpecProc == InitProc /\ [][NextProc]_vars

(***************************************************************************)
(* processImage with the grid detection switched off.                      *)
(***************************************************************************)
\* the call returned from the grid-disabled branch: grid detection is off
\* and not both forced sizes are numbers
GridDisabledDone ==
    /\ call.fn = "processImage"
    /\ ret.status = "done"
    /\ ~call.options.enableGridDetection
    /\ \E o \in {normalizeProcessOptions(call.options)} :
          o.forcePixelsW.k = "undefined" \/ o.forcePixelsH.k = "undefined"

\* the working bitmap and the background mask as the branch has them when it
\* comes to trimming (lines 1125-1156 and 1291-1308)
beforeTrim(c) ==
    (CHOOSE v_ \in {
        [working |-> Img(m.mem, m.loc.working), masked |-> Img(m.mem, m.loc.masked)]
        : m \in {maskAndFloating(
                    segStart([pc |-> "start", mem |-> [b \in {"input"} |-> c.img.data],
                              loc |-> NoLoc, ret |-> Pending],
                             normalizeProcessOptions(c.options), InputRef(c.img)),
                    normalizeProcessOptions(c.options), TRUE, "disabled", "disabled")}
        } : TRUE)

\* the smallest rectangle around a non-empty set of pixel indexes of a
\* bitmap W wide
boxOf(hit, W) ==
    LET xs == {p % W : p \in hit}
        ys == {p \div W : p \in hit}
        x0 == CHOOSE x \in xs : \A x2 \in xs : x <= x2
        x1 == CHOOSE x \in xs : \A x2 \in xs : x >= x2
        y0 == CHOOSE y \in ys : \A y2 \in ys : y <= y2
        y1 == CHOOSE y \in ys : \A y2 \in ys : y >= y2
    IN  [x |-> x0, y |-> y0, w |-> x1 - x0 + 1, h |-> y1 - y0 + 1]

\* what the branch reports whatever follows the trimming: unit cells, the
\* input's size without trimToContent, and with it the size and the origin
\* of the box of the mask's pixels at or above the alpha threshold
gridDisabledSizes(bt, o) ==
    /\ ret.grid.cellW = F(1) /\ ret.grid.cellH = F(1)
    /\ ~o.trimToContent =>
          ret.result.width = call.img.width /\ ret.result.height = call.img.height
    /\ (o.trimToContent /\ AtOrAbove(bt.masked, o.trimAlphaThreshold) # {}) =>
          \E box \in {boxOf(AtOrAbove(bt.masked, o.trimAlphaThreshold), bt.masked.width)} :
             /\ ret.result.width = box.w /\ ret.result.height = box.h
             /\ ret.grid.cropX = F(box.x) /\ ret.grid.cropY = F(box.y)
             /\ ret.grid.outW = box.w /\ ret.grid.outH = box.h
             /\ ret.grid.cropW = F(box.w) /\ ret.grid.cropH = F(box.h)

\* the result holds the pixels of the working bitmap inside the box
resultIsCrop(bt, o) ==
    \E box \in {boxOf(AtOrAbove(bt.masked, o.trimAlphaThreshold), bt.masked.width)} :
       \A x \in 0..(box.w - 1), y \in 0..(box.h - 1) :
          heap[ret.result.buf][y * box.w + x + 1] =
             bt.working.data[(box.y + y) * bt.working.width + box.x + x + 1]

\* C19, as the specification states it: with the grid detection off and no
\* forced size processImage reports cellW = cellH = 1; without trimToContent
\* the result has the input's size; with it and a non-empty mask the result
\* is the working bitmap cropped to the mask's box, and the grid carries the
\* box.
C19_Original ==
    GridDisabledDone =>
        \E o \in {normalizeProcessOptions(call.options)}, bt \in {beforeTrim(call)} :
           /\ gridDisabledSizes(bt, o)
           /\ (o.trimToContent /\ AtOrAbove(bt.masked, o.trimAlphaThreshold) # {}) =>
                 resultIsCrop(bt, o)

\* C19, amended: as above, but the result is the cropped working bitmap
\* itself only when postRemoveBackground and reduceColors are both off; with
\* one of them on it still has the size of the box.
C19_GridDisabled ==
    GridDisabledDone =>
        \E o \in {normalizeProcessOptions(call.options)}, bt \in {beforeTrim(call)} :
           /\ gridDisabledSizes(bt, o)
           /\ (o.trimToContent /\ AtOrAbove(bt.masked, o.trimAlphaThreshold) # {}
                /\ ~o.postRemoveBackground /\ ~o.reduceColors) =>
                 resultIsCrop(bt, o)

\* a result cut out of the working bitmap, away from its origin, with the
\* background not removed again
C19_Witness ==
    /\ GridDisabledDone
    /\ call.options.trimToContent
    /\ ~call.options.postRemoveBackground
    /\ ~call.options.reduceColors
    /\ ret.grid.cropX # F(0)
    /\ ret.result.width < call.img.width
    /\ \E k \in 1..Len(heap[ret.result.buf]) : heap[ret.result.buf][k][4] > 0

(***************************************************************************)
(* processImage: what every returned result and grid satisfy.              *)
(***************************************************************************)
ProcDone == call.fn = "processImage" /\ ret.status = "done"

\* both forced sizes are numbers, so that the forced branch is taken
ForcedCall ==
    \E o \in {normalizeProcessOptions(call.options)} :
       o.forcePixelsW.k # "undefined" /\ o.forcePixelsH.k # "undefined"

\* C1: every processImage call that returns, on whichever path, returns a
\* bitmap of width grid.outW and height grid.outH, with one RGBA quadruple
\* for each of its width * height pixels.
C1_ResultHasGridSize ==
    ProcDone =>
       /\ ret.result.width = ret.grid.outW
       /\ ret.result.height = ret.grid.outH
       /\ Len(heap[ret.result.buf]) = ret.result.width * ret.result.height
       /\ \A k \in 1..Len(heap[ret.result.buf]) : Len(heap[ret.result.buf][k]) = 4

\* the automatic path returned a bitmap that the trim after the downsampling
\* made narrower than the downsampled one
C1_Witness ==
    /\ ProcDone
    /\ ~ForcedCall
    /\ call.options.enableGridDetection
    /\ "down" \in DOMAIN loc
    /\ ret.result.width < loc.down.width
    /\ ret.grid.outW = ret.result.width

\* outW * cellW = cropW, outH * cellH = cropH, 0 <= offsetX < cellW and
\* 0 <= offsetY < cellH, in the doubles of the code
gridConsistent(g) ==
    /\ fmul(F(g.outW), g.cellW) = g.cropW
    /\ fmul(F(g.outH), g.cellH) = g.cropH
    /\ g.offsetX >= 0 /\ flt(F(g.offsetX), g.cellW)
    /\ g.offsetY >= 0 /\ flt(F(g.offsetY), g.cellH)

\* C2, as the specification states it: the grid of every returned call
\* satisfies outW * cellW = cropW, outH * cellH = cropH, 0 <= offsetX < cellW
\* and 0 <= offsetY < cellH, on every path.
C2_Original == ProcDone => gridConsistent(ret.grid)

\* C2, amended: the grid of every returned call has 0 <= offsetX < cellW and
\* 0 <= offsetY < cellH; off the forced path outW * cellW = cropW and
\* outH * cellH = cropH; on the forced path the offsets are 0 and cellW, cellH
\* are the doubles cropW / outW and cropH / outH, whose products with outW
\* and outH need not give cropW and cropH back.
C2_GridConsistent ==
    ProcDone =>
       IF ForcedCall
       THEN /\ ret.grid.cellW = fdiv(ret.grid.cropW, F(ret.grid.outW))
            /\ ret.grid.cellH = fdiv(ret.grid.cropH, F(ret.grid.outH))
            /\ ret.grid.offsetX = 0 /\ flt(F(0), ret.grid.cellW)
            /\ ret.grid.offsetY = 0 /\ flt(F(0), ret.grid.cellH)
       ELSE gridConsistent(ret.grid)

\* a forced height of 49 on a crop one pixel high: 49 * (1 / 49) < 1
C2_Witness ==
    /\ ProcDone
    /\ ForcedCall
    /\ ret.grid.outH = 49
    /\ ret.grid.cropH = F(1)
    /\ flt(fmul(F(ret.grid.outH), ret.grid.cellH), ret.grid.cropH)

\* forcePixelsW and forcePixelsH are both numbers in the caller's options
bothForced == call.options.forcePixelsW.k = "num" /\ call.options.forcePixelsH.k = "num"

\* a forced size as a whole number of pixels in 1..1024
forcedPixels(v) == Max2(1, Min2(1024, v.h2 \div 2))

\* the background mask has a pixel with alpha >= trimAlphaThreshold
maskHasContent ==
    \E o \in {normalizeProcessOptions(call.options)}, bt \in {beforeTrim(call)} :
       AtOrAbove(bt.masked, o.trimAlphaThreshold) # {}

\* the call ended with the exception of the caller's debugHook
hookThrew == ret.status = "error" /\ ret.error = "HookError"

\* C3: with forcePixelsW and forcePixelsH both set and a background mask
\* that has a pixel with alpha >= trimAlphaThreshold, a call of processImage
\* that its debugHook does not end returns a bitmap of forcePixelsW x
\* forcePixelsH pixels (each cut to a whole number and clamped to 1..1024)
\* with grid.outW and grid.outH equal to them, whatever the other options;
\* and the forced branch is taken only when both are set.
C3_ForcedSize ==
    /\ (call.fn = "processImage" /\ "branch" \in DOMAIN loc)
       => (loc.branch = "forced" <=> bothForced)
    /\ (call.fn = "processImage" /\ pc = "done" /\ bothForced /\ ~hookThrew
        /\ maskHasContent)
       => /\ ret.status = "done"
          /\ ret.result.width = forcedPixels(call.options.forcePixelsW)
          /\ ret.result.height = forcedPixels(call.options.forcePixelsH)
          /\ ret.grid.outW = ret.result.width
          /\ ret.grid.outH = ret.result.height

\* forced to 0 x 2.5 with the grid detection off: a bitmap of 1 x 2 came back
C3_Witness ==
    /\ ProcDone
    /\ call.options.forcePixelsW = OptNum(0)
    /\ call.options.forcePixelsH = OptNum(5)
    /\ ~call.options.enableGridDetection
    /\ maskHasContent
    /\ ret.result.width = 1 /\ ret.result.height = 2

\* C4: processImage never writes to the caller's bitmap: in every state of
\* every call, returned or raised or waiting in a debugHook, the input
\* buffer holds the bytes it was given, and a returned bitmap does not have
\* the input's buffer.
C4_InputUntouched ==
    call.fn = "processImage" =>
       /\ "input" \in DOMAIN heap
       /\ heap["input"] = call.img.data
       /\ ret.status = "done" => ret.result.buf # "input"

\* a call returned after floating content was erased in place in its
\* working bitmap
C4_Witness ==
    /\ ProcDone
    /\ "removedPixels" \in DOMAIN loc
    /\ loc.removedPixels > 0
    /\ \E k \in 1..Len(call.img.data) : call.img.data[k][4] > 0

\* C5: on the forced-size path, when the background mask has no pixel with
\* alpha >= trimAlphaThreshold (as for an input of alpha 0 everywhere), a
\* call of processImage that its debugHook does not end raises
\* ContentNotFound, and gives neither a result nor a grid.
C5_ContentNotFound ==
    (call.fn = "processImage" /\ pc = "done" /\ bothForced /\ ~hookThrew
     /\ ~maskHasContent)
    => /\ ret.status = "error"
       /\ ret.error = "ContentNotFound"
       /\ DOMAIN ret = {"status", "error"}

\* a bitmap with some opaque pixel, all of whose pixels the background
\* removal cleared, forced to 3 x 2: ContentNotFound
C5_Witness ==
    /\ call.fn = "processImage"
    /\ pc = "done"
    /\ call.options.forcePixelsW = OptNum(6)
    /\ call.options.forcePixelsH = OptNum(4)
    /\ \E k \in 1..Len(call.img.data) : call.img.data[k][4] = 255
    /\ ~maskHasContent
    /\ ret = [status |-> "error", error |-> "ContentNotFound"]

(***************************************************************************)
(* Specification SpecDetect: one call of detectGrid.                       *)
(***************************************************************************)
MaxUniformSide == 16

\* fully opaque bitmaps of one colour
UniformImages ==
    {[width |-> w, height |-> h, data |-> [p \in 1..(w * h) |-> px]] :
        w \in 1..MaxUniformSide, h \in 1..MaxUniformSide, px \in {Opaque1, Opaque2}}

\* DetectOptions as processImage passes them, with detectionQuantStep 64
\* (the default) or 1 and the background mask on or off
DetectOptionSets ==
    {[detectionQuantStep |-> q, autoMaxCellsW |-> 128, autoMaxCellsH |-> 128,
      detectionStrips |-> 12, backgroundMask |-> m] : q \in {64, 1}, m \in BOOLEAN}

InitDetect ==
    /\ \E im \in ProcImages \cup UniformImages, opts \in DetectOptionSets :
          call = [fn |-> "detectGrid", img |-> im, options |-> opts]
    /\ ret = Pending
    /\ FnOnly

\* detectGrid(img, options); estX and estY tell whether finalX and finalY
\* were estimates
CallDetectGrid ==
    /\ call.fn = "detectGrid"
    /\ ret = Pending
    /\ \E d \in {detectGrid(call.img, call.options)},
          det \in {posterize(call.img, call.options.detectionQuantStep)} :
          \E estX \in {axisEstimate(det, "x", call.options).ok},
             estY \in {axisEstimate(det, "y", call.options).ok} :
             ret' = IF d.threw
                    THEN [status |-> "error", error |-> "GridDetectionFailed",
                          estX |-> estX, estY |-> estY]
                    ELSE [status |-> "done", grid |-> d.grid,
                          estX |-> estX, estY |-> estY]
    /\ UNCHANGED <<call, procVars>>

NextDetect == CallDetectGrid

SpecDetect == InitDetect /\ [][NextDetect]_vars

\* every pixel of the bitmap is the first one, and that one has alpha 255
isUniformOpaque(img) ==
    /\ img.data[1][4] = 255
    /\ \A k \in 1..Len(img.data) : img.data[k] = img.data[1]

runToEnd(c) ==
    (CHOOSE v_ \in {
      Loop(LAMBDA s : IF isTap(s.pc) THEN skipTap(s) ELSE runSegment(s, o, InputRef(c.img)),
           LAMBDA s : s.pc = "done",
           [pc |-> "start", mem |-> [b \in {"input"} |-> c.img.data],
            loc |-> NoLoc, ret |-> Pending],
           5)
      : o \in {normalizeProcessOptions(c.options)} } : TRUE)

\* C7: when the debugHook throws at a tap, processImage discards the
\* exception and goes on: the call ends as it ends when the hook does not
\* throw, with the same result bitmap and the same grid.
C7_HookExceptionDiscarded ==
    (call.fn = "processImage" /\ pc = "done" /\ call.options.debugHook)
    => \E e \in {runToEnd(call)} :
          /\ ret = e.ret
          /\ ret.status = "done" => heap[ret.result.buf] = e.mem[e.ret.result.buf]

(***************************************************************************)
(* processImage: the calls of the debugHook.                               *)
(***************************************************************************)
\* the fixed list of stage names
TapOrder ==
    <<"00-input", "01-working", "01b-working-ignore-floating",
      "02-pre-downsample-masked", "03-pre-downsample-bg-trimmed", "04-grid-crop",
      "05-downsampled", "06-post-downsample-masked", "07-trimmed", "99-result">>

isStage(name) == \E i \in 1..Len(TapOrder) : TapOrder[i] = name
rankOf(name) == CHOOSE i \in 1..Len(TapOrder) : TapOrder[i] = name

\* the names the hook was called with so far, the call in progress included
tapsSoFar == IF isTap(pc) THEN Append(loc.taps, TapName[pc]) ELSE loc.taps

\* C21: within one call of processImage the debugHook is called only while
\* the call is running, only with names of the fixed list, and in the order
\* of the list, never with an earlier stage after a later one: "00-input"
\* first, "01-working" second, the others after them.
C21_TapsInOrder ==
    call.fn = "processImage" =>
       \E t \in {tapsSoFar} :
          /\ isTap(pc) => ret = Pending
          /\ \A i \in 1..Len(t) : isStage(t[i])
          /\ \A i \in 1..Len(t), j \in 1..Len(t) :
                i < j => rankOf(t[i]) <= rankOf(t[j])
          /\ Len(t) >= 1 => t[1] = "00-input"
          /\ Len(t) >= 2 => t[2] = "01-working"
          /\ \A i \in 3..Len(t) : rankOf(t[i]) > 2

\* the automatic path showed "03-pre-downsample-bg-trimmed" twice and went
\* on through "06-post-downsample-masked" and "07-trimmed" to "99-result"
C21_Witness ==
    /\ ProcDone
    /\ Len(loc.taps) >= 9
    /\ \E i \in 1..(Len(loc.taps) - 1) :
          /\ loc.taps[i] = "03-pre-downsample-bg-trimmed"
          /\ loc.taps[i + 1] = "03-pre-downsample-bg-trimmed"
    /\ \E i \in 1..(Len(loc.taps) - 1) :
          /\ loc.taps[i] = "06-post-downsample-masked"
          /\ loc.taps[i + 1] = "07-trimmed"
    /\ loc.taps[Len(loc.taps)] = "99-result"

\* C22: every call of processImage that has a debugHook and returns has
\* called the hook with "99-result" exactly once, as the last of its calls,
\* and with the bitmap it returns, on the forced, the grid-disabled and the
\* automatic path alike.
C22_ResultTapped ==
    (ProcDone /\ call.options.debugHook)
    => /\ Cardinality({i \in 1..Len(loc.taps) : loc.taps[i] = "99-result"}) = 1
       /\ loc.taps[Len(loc.taps)] = "99-result"
       /\ loc.shown[Len(loc.shown)] = ret.result

\* C23: with enableGridDetection off, no forced size and trimToContent on, a
\* call of processImage on a bitmap whose background mask has no pixel with
\* alpha >= trimAlphaThreshold raises ContentNotFound and returns no result.
C23_DisabledNeedsContent ==
    (call.fn = "processImage" /\ pc = "done" /\ ~hookThrew
     /\ ~call.options.enableGridDetection /\ ~bothForced
     /\ call.options.trimToContent /\ ~maskHasContent)
    => /\ ret.status = "error"
       /\ ret.error = "ContentNotFound"

(***************************************************************************)
(* Specification SpecRgbScan: the scan of removeBackgroundByFloodFill for  *)
(* the "rgb" method, one pixel of the scan per step.  Every pixel that is  *)
(* not yet visited, is within the tolerance of bgRgb and is not yet clear  *)
(* seeds a floodFillTransparent that is given the one shared visited       *)
(* array.  ret holds the copy being filled, the visited array, the scan    *)
(* index and the seeds flooded so far.                                     *)
(***************************************************************************)
\* Pixel values of the scan: three colours within 4 of #0a0a0a, of which the
\* first and the second are 8 apart, and a clear pixel.
RgbScanPixels ==
    {<<6, 10, 10, 255>>, <<14, 10, 10, 255>>, <<12, 10, 10, 255>>, <<10, 10, 10, 0>>}
RgbScanTolerances == {0, 4}
RgbScanBg == <<"#", "0", "a", "0", "a", "0", "a">>

InitRgbScan ==
    /\ \E im \in ImagesOver(Shapes, RgbScanPixels), t \in RgbScanTolerances :
          /\ call = [fn |-> "removeBackgroundByFloodFill", img |-> im,
                     tolerance |-> t, method |-> "rgb", bgRgb |-> RgbScanBg]
          /\ ret = [status |-> "scan", out |-> im, visited |-> freshVisited(im),
                    idx |-> 0, seeds |-> <<>>]
    /\ FnOnly

\* the pixel at the scan index is flooded from
rgbScanSeeds ==
    /\ ret.visited[ret.idx + 1] = 0
    /\ nearColor(call.img.data[ret.idx + 1], parseBgRgb(call.bgRgb), call.tolerance)
    /\ ret.out.data[ret.idx + 1][4] # 0

rgbScanNext(seeds) ==
    \E st \in {rgbScanStep([out |-> ret.out, visited |-> ret.visited, idx |-> ret.idx],
                           call.img, parseBgRgb(call.bgRgb), call.tolerance)} :
       ret' = [status |-> IF st.idx >= call.img.width * call.img.height
                          THEN "done" ELSE "scan",
               out |-> st.out, visited |-> st.visited, idx |-> st.idx,
               seeds |-> seeds]

RgbScanFlood ==
    /\ call.fn = "removeBackgroundByFloodFill"
    /\ ret.status = "scan"
    /\ rgbScanSeeds
    /\ rgbScanNext(Append(ret.seeds, <<ret.idx % call.img.width,
                                       ret.idx \div call.img.width>>))
    /\ UNCHANGED <<call, procVars>>

RgbScanPass ==
    /\ call.fn = "removeBackgroundByFloodFill"
    /\ ret.status = "scan"
    /\ ~rgbScanSeeds
    /\ rgbScanNext(ret.seeds)
    /\ UNCHANGED <<call, procVars>>

NextRgbScan == RgbScanFlood \/ RgbScanPass

SpecRgbScan == InitRgbScan /\ [][NextRgbScan]_vars

\* floodFillTransparent for each of the seeds in turn, every call without a
\* visitedExternal
RECURSIVE floodEachFresh(_, _, _)
floodEachFresh(img, seeds, tolerance) ==
    IF seeds = <<>> THEN img
    ELSE (CHOOSE v_ \in {
           floodEachFresh(r.img, Tail(seeds), tolerance)
           : r \in {floodFillTransparent(img, seeds[1][1], seeds[1][2],
                                         tolerance, freshVisited(img))} } : TRUE)

alphaField(img) == [p \in 1..Len(img.data) |-> img.data[p][4]]

\* C24: the shared visited array is only an optimisation: when the scan
\* ends, the alpha of every pixel is what floodFillTransparent leaves when it
\* is called for the same seeds in the same order with a fresh visited set
\* each time.
C24_SharedVisitedSameAlpha ==
    (call.fn = "removeBackgroundByFloodFill" /\ ret.status = "done")
    => alphaField(ret.out)
         = alphaField(floodEachFresh(call.img, ret.seeds, call.tolerance))

(***************************************************************************)
(* Specification SpecEstimate: the search of one axis by either estimator  *)
(* with no target cell count, one candidate size per step.  The boundary   *)
(* data are those of one line whose runs (of the segment, or of foreground *)
(* and background) have the lengths of call.runs.  ret holds the           *)
(* candidates, the index of the next one, `best`, and for the step just    *)
(* taken the candidate it scored (cand) and the `best` it met (prev).      *)
(***************************************************************************)
MinStripLen == 16
MaxStripLen == 24
RunChoices == {2, 3, 4}

\* the sequences of run lengths that fill a line of n pixels
RECURSIVE RunsFilling(_)
RunsFilling(n) ==
    IF n = 0 THEN {<<>>}
    ELSE UNION {{<<p>> \o c : c \in RunsFilling(n - p)} : p \in {q \in RunChoices : q <= n}}

\* the runs of a line as getRunLengths gives them
runsOfLengths(lengths) ==
    [i \in 1..Len(lengths) |->
        [start |-> sumRange(LAMBDA j : lengths[j], 1, i - 1), length |-> lengths[i]]]

InitEstimate ==
    /\ \E n \in MinStripLen..MaxStripLen :
       \E lengths \in RunsFilling(n), e \in {"segments", "boundaries"} :
          call = [fn |-> "estimate", estimator |-> e, runs |-> lengths, length |-> n,
                  expectedCellsMin |-> 8, expectedCellsMax |-> 128]
    /\ ret = Pending
    /\ FnOnly

\* the code of an estimator before its loop over the candidates
EstimateStart ==
    /\ call.fn = "estimate"
    /\ ret = Pending
    /\ \E data \in {collectRuns(runsOfLengths(call.runs))} :
          IF Len(data.runLengths) < 2 \/ Len(data.boundaries) < 2
          THEN ret' = [status |-> "done", best |-> [ok |-> FALSE]]
          ELSE \E maxLen \in {Min2(MaxCell, SetMax({data.runLengths[i] :
                                               i \in 1..Len(data.runLengths)}))} :
               \E candidates \in {candidateSizes(data.runLengths, maxLen, call.length,
                                     call.expectedCellsMin, call.expectedCellsMax)} :
                  ret' = [status |-> IF maxLen < 2 \/ Len(candidates) = 0
                                     THEN "done" ELSE "search",
                          data |-> data, maxLen |-> maxLen, candidates |-> candidates,
                          k |-> 1, best |-> [ok |-> FALSE],
                          prev |-> [ok |-> FALSE], cand |-> [ok |-> FALSE]]
    /\ UNCHANGED <<call, procVars>>

\* one candidate of the loop, `best` updated by the rule given
estimateStep(better(_, _)) ==
    \E c \in {scoreCandidate(ret.candidates[ret.k], ret.data.runLengths,
                             ret.data.boundaries, ret.maxLen, call.length,
                             call.expectedCellsMin, call.expectedCellsMax)} :
       ret' = [ret EXCEPT !.status = IF ret.k >= Len(ret.candidates)
                                     THEN "done" ELSE "search",
                          !.k = ret.k + 1,
                          !.prev = ret.best,
                          !.cand = c,
                          !.best = better(ret.best, c)]

EstimateSegmentsStep ==
    /\ call.fn = "estimate"
    /\ call.estimator = "segments"
    /\ ret.status = "search"
    /\ estimateStep(betterBySegments)
    /\ UNCHANGED <<call, procVars>>

EstimateBoundaryStep ==
    /\ call.fn = "estimate"
    /\ call.estimator = "boundaries"
    /\ ret.status = "search"
    /\ estimateStep(betterByBoundaries)
    /\ UNCHANGED <<call, procVars>>

NextEstimate == EstimateStart \/ EstimateSegmentsStep \/ EstimateBoundaryStep

SpecEstimate == InitEstimate /\ [][NextEstimate]_vars

\* a candidate has just been scored against a best there was
scoredAgainstBest ==
    /\ call.fn = "estimate"
    /\ ret.status \in {"search", "done"}
    /\ ret.best.ok
    /\ ret.prev.ok
    /\ ret.cand.ok

\* C25: in the search of either estimator, a candidate size whose score is
\* within 0.35 of the best one's replaces it when it is the larger size, and
\* a smaller or equal size replaces the best only when its score is lower by
\* more than 0.35.
C25_TieBreakLarger ==
    scoredAgainstBest
    => /\ (Abs(ret.cand.score - ret.prev.score) <= Eps
           /\ ret.cand.cellSize > ret.prev.cellSize) => ret.best = ret.cand
       /\ (ret.cand.cellSize <= ret.prev.cellSize /\ ret.best = ret.cand)
             => ret.cand.score < ret.prev.score - Eps

(***************************************************************************)
(* Specification SpecRunLengths: one call of getRunLengths on every short  *)
(* strip, with a quantisation step that merges two of the colours or none  *)
(* and an alpha threshold above or below the faint pixel's alpha.          *)
(***************************************************************************)
MaxRunStripLen == 6
\* two colours that step 64 makes equal, a third colour, a faint pixel
RunStripPixels ==
    {<<10, 10, 10, 255>>, <<20, 10, 10, 255>>, <<200, 10, 10, 255>>, <<10, 10, 10, 8>>}
RunQuantSteps == {1, 64}
RunAlphaThresholds == {1, 16}

InitRunLengths ==
    /\ \E n \in 0..MaxRunStripLen :
       \E strip \in [1..n -> RunStripPixels], q \in RunQuantSteps,
          t \in RunAlphaThresholds :
          call = [fn |-> "getRunLengths", strip |-> strip, quantStep |-> q,
                  alphaThreshold |-> t]
    /\ ret = Pending
    /\ FnOnly

CallGetRunLengths ==
    /\ call.fn = "getRunLengths"
    /\ ret = Pending
    /\ ret' = [status |-> "done",
               segments |-> getRunLengths(call.strip, call.quantStep,
                                          call.alphaThreshold)]
    /\ UNCHANGED <<call, procVars>>

NextRunLengths == CallGetRunLengths

SpecRunLengths == InitRunLengths /\ [][NextRunLengths]_vars

\* positions of the strip count from 0, as in the source
stripOpaque(i) == call.strip[i + 1][4] >= call.alphaThreshold
stripColor(i) ==
    <<quantizeChannel(call.strip[i + 1][1], call.quantStep),
      quantizeChannel(call.strip[i + 1][2], call.quantStep),
      quantizeChannel(call.strip[i + 1][3], call.quantStep)>>
\* the position after the last run of a segment
segmentEnd(seg) == seg.runs[Len(seg.runs)].start + seg.runs[Len(seg.runs)].length
\* position k of a segment begins a run of equal quantised colour
colourChanges(seg, k) == k = seg.start \/ stripColor(k) # stripColor(k - 1)
\* the run at k is one pixel long, inside the segment, between two runs of
\* equal colour: the noise the smoothing absorbs
isNoise(seg, k) ==
    /\ k > seg.start
    /\ k + 1 < segmentEnd(seg)
    /\ stripColor(k) # stripColor(k - 1)
    /\ stripColor(k + 1) # stripColor(k)
    /\ stripColor(k - 1) = stripColor(k + 1)

runsTile(seg) ==
    /\ Len(seg.runs) >= 1
    /\ seg.runs[1].start = seg.start
    /\ \A r \in 1..Len(seg.runs) : seg.runs[r].length >= 1
    /\ \A r \in 1..(Len(seg.runs) - 1) :
          seg.runs[r + 1].start = seg.runs[r].start + seg.runs[r].length

isMaximalStretch(seg) ==
    /\ seg.start >= 0
    /\ segmentEnd(seg) <= Len(call.strip)
    /\ \A i \in seg.start..(segmentEnd(seg) - 1) : stripOpaque(i)
    /\ seg.start = 0 \/ ~stripOpaque(seg.start - 1)
    /\ segmentEnd(seg) = Len(call.strip) \/ ~stripOpaque(segmentEnd(seg))

\* C26: the segments of getRunLengths are exactly the maximal stretches of
\* pixels with alpha >= threshold, in order; the runs of a segment have
\* length >= 1, the first starts where the segment starts, each next one
\* where the one before ends, and they end where the segment ends; a run
\* starts exactly where the quantised colour changes, except at a one-pixel
\* run between two runs of equal colour, which is counted into the run
\* before it while the run after it stays a run of its own.
C26_RunsTileSegments ==
    (call.fn = "getRunLengths" /\ ret.status = "done")
    => LET segs == ret.segments
       IN  /\ \A s \in 1..Len(segs) : runsTile(segs[s]) /\ isMaximalStretch(segs[s])
           /\ \A s \in 1..(Len(segs) - 1) : segmentEnd(segs[s]) < segs[s + 1].start
           /\ \A i \in 0..(Len(call.strip) - 1) :
                 stripOpaque(i) =>
                    \E s \in 1..Len(segs) :
                       segs[s].start <= i /\ i < segmentEnd(segs[s])
           /\ \A s \in 1..Len(segs) :
                 /\ {segs[s].runs[r].start : r \in 1..Len(segs[s].runs)}
                      = {k \in segs[s].start..(segmentEnd(segs[s]) - 1) :
                            colourChanges(segs[s], k) /\ ~isNoise(segs[s], k)}
                 /\ \A r \in 1..Len(segs[s].runs) :
                       segs[s].runs[r].color = stripColor(segs[s].runs[r].start)

\* Two segments, one of which has a noise pixel that was absorbed while the
\* run after it, of the colour of the run before it, stayed a separate run.
C26_Witness ==
    /\ call.fn = "getRunLengths"
    /\ ret.status = "done"
    /\ Len(ret.segments) >= 2
    /\ \E s \in 1..Len(ret.segments) :
       \E r \in 1..(Len(ret.segments[s].runs) - 1) :
          LET run == ret.segments[s].runs[r]
              next == ret.segments[s].runs[r + 1]
          IN  /\ isNoise(ret.segments[s], next.start - 1)
              /\ run.length >= 2
              /\ next.color = run.color

(***************************************************************************)
(* Specification SpecRound15: the 15-bit rounding of one pixel, by         *)
(* roundTo15bitColor and by the pre-rounding of the SFC modes, for every   *)
(* value of the red channel.                                               *)
(***************************************************************************)
Round15Others == {0, 131, 255}
Round15Alphas == {0, 128, 255}

InitRound15 ==
    /\ \E r \in 0..255, g \in Round15Others, a \in Round15Alphas :
       \E f \in {"roundTo15bitColor", "applyColorReduction"} :
          call = [fn |-> f,
                  img |-> [width |-> 1, height |-> 1, data |-> <<(<<r, g, g, a>>)>>]]
    /\ ret = Pending
    /\ FnOnly

CallRoundTo15bitColor ==
    /\ call.fn = "roundTo15bitColor"
    /\ ret = Pending
    /\ ret' = [status |-> "done", data |-> roundTo15bitColor(call.img).data]
    /\ UNCHANGED <<call, procVars>>

\* applyColorReduction in an SFC mode, up to workingPixelData
CallSfcPreRound ==
    /\ call.fn = "applyColorReduction"
    /\ ret = Pending
    /\ ret' = [status |-> "done", data |-> sfcPreRound(call.img.data)]
    /\ UNCHANGED <<call, procVars>>

NextRound15 == CallRoundTo15bitColor \/ CallSfcPreRound

SpecRound15 == InitRound15 /\ [][NextRound15]_vars

\* C27: the 15-bit rounding, of roundTo15bitColor and of the SFC modes
\* alike, leaves every colour channel a multiple of 8 in 0..248 (a 5-bit
\* level 0..31 times 8) and the alpha as it was.
C27_FiveBitLevels ==
    (call.fn \in {"roundTo15bitColor", "applyColorReduction"} /\ ret.status = "done")
    => \A k \in 1..Len(ret.data) :
          /\ \A c \in 1..3 : ret.data[k][c] \in {8 * level : level \in 0..31}
          /\ ret.data[k][4] = call.img.data[k][4]

(***************************************************************************)
(* detectGrid on degenerate bitmaps.                                       *)
(***************************************************************************)
\* C28: detectGrid returns a grid and does not raise on degenerate bitmaps:
\* for a bitmap of one opaque pixel the grid has outW = 1 and outH = 1, and
\* for a bitmap of 16 x 16 pixels of one opaque colour the call does not
\* throw.
C28_DegenerateHandled ==
    (call.fn = "detectGrid" /\ ret.status # "pending" /\ isUniformOpaque(call.img))
    => /\ (call.img.width = 1 /\ call.img.height = 1)
            => /\ ret.status = "done"
               /\ ret.grid.outW = 1
               /\ ret.grid.outH = 1
       /\ (call.img.width = 16 /\ call.img.height = 16) => ret.status = "done"

(***************************************************************************)
(* Specification SpecGridSearch: both strategies of the grid search on the *)
(* same trimmed bitmap and mask, the legacy search first.  The bitmaps are *)
(* three pixels wide, with rows in blocks of two colours; all of them are  *)
(* small (the coarse scan of the fast strategy has both of its strides 1). *)
(***************************************************************************)
MaxSearchHeight == 5
SearchWindows == {1, 3}
\* taller bitmaps [width, height, block], whose scans have two candidate
\* outH (2, 3) and six (2..7)
TallSearchCases == {<<3, 12, 4>>, <<3, 28, 4>>}

\* rows in blocks of `block` rows, alternately of two colours
blockImage(w, h, block) ==
    [width |-> w, height |-> h,
     data |-> [p \in 1..(w * h) |->
                 IF (((p - 1) \div w) \div block) % 2 = 0 THEN Opaque1 ELSE Opaque2]]

\* the bitmap with the rows outside `rows` clear
maskOf(img, rows) ==
    [img EXCEPT !.data = [p \in 1..Len(img.data) |->
        IF (p - 1) \div img.width \in rows THEN img.data[p]
        ELSE <<img.data[p][1], img.data[p][2], img.data[p][3], 0>>]]

\* masks: nothing clear, everything clear, the last row clear, every row
\* but the second clear
maskRows(h) == {0..(h - 1), {}, 0..(h - 2), {1}}

InitGridSearch ==
    /\ \/ \E h \in 2..MaxSearchHeight, b \in 1..2, win \in SearchWindows :
          \E rows \in maskRows(h) :
             call = [fn |-> "searchGridFromTrimmed",
                     cropped |-> blockImage(3, h, b),
                     mask |-> maskOf(blockImage(3, h, b), rows),
                     sampleWindow |-> win]
       \/ \E c \in TallSearchCases :
             call = [fn |-> "searchGridFromTrimmed",
                     cropped |-> blockImage(c[1], c[2], c[3]),
                     mask |-> blockImage(c[1], c[2], c[3]),
                     sampleWindow |-> 1]
    /\ ret = [status |-> "pending"]
    /\ FnOnly

\* legacySearchGridFromTrimmed(cropped, mask, sampleWindow)
CallLegacySearch ==
    /\ call.fn = "searchGridFromTrimmed"
    /\ ret.status = "pending"
    /\ \E r \in {legacySearchGridFromTrimmed(call.cropped, call.mask, call.sampleWindow)} :
          ret' = [status |-> "legacy", legacy |-> r]
    /\ UNCHANGED <<call, procVars>>

\* new FastGridSearchFromTrimmed().search(cropped, mask, sampleWindow)
CallFastSearch ==
    /\ call.fn = "searchGridFromTrimmed"
    /\ ret.status = "legacy"
    /\ \E r \in {fastSearchGridFromTrimmed(call.cropped, call.mask, call.sampleWindow)} :
          ret' = [status |-> "done", legacy |-> ret.legacy, fast |-> r]
    /\ UNCHANGED <<call, procVars>>

NextGridSearch == CallLegacySearch \/ CallFastSearch

SpecGridSearch == InitGridSearch /\ [][NextGridSearch]_vars

\* the bitmap is small: the coarse scan of the fast strategy has outH stride
\* 1 and pixel stride 1
smallSearch ==
    LET outHMin == Max2(2, call.cropped.height \div 32)
        outHMax == Min2(128, Max2(outHMin, call.cropped.height \div 4))
    IN  /\ Max2(call.cropped.width, call.cropped.height) < 1024
        /\ outHMax - outHMin < 32

\* C29: on a small bitmap the fast strategy returns the (outW, outH, cellW,
\* cellH) the legacy search returns, or both return null.
C29_FastAgreesWithLegacy ==
    (call.fn = "searchGridFromTrimmed" /\ ret.status = "done" /\ smallSearch)
    => /\ ret.fast.found = ret.legacy.found
       /\ ret.fast.found =>
             /\ ret.fast.outW = ret.legacy.outW
             /\ ret.fast.outH = ret.legacy.outH
             /\ ret.fast.cellW = ret.legacy.cellW
             /\ ret.fast.cellH = ret.legacy.cellH

\* Both strategies found the same grid, of the last outH of a scan of six
\* candidates, where the second scan of the fast strategy ran over the last
\* three only.
C29_Witness ==
    /\ call.fn = "searchGridFromTrimmed"
    /\ ret.status = "done"
    /\ smallSearch
    /\ call.cropped.height \div 4 = 7
    /\ ret.fast.found /\ ret.legacy.found
    /\ ret.fast.outH = ret.legacy.outH
    /\ ret.legacy.outH = 7

(***************************************************************************)
(* browser/io.ts: ImageSession.  Specification SpecSession: the calls of   *)
(* its public methods in any order.  heap holds the object's fields,       *)
(* images (the list of items [id, status, result, error]) and              *)
(* activeImageId; an id is a number, NullId standing for null; `issued`    *)
(* are the ids crypto.randomUUID() has returned.  call is the last call    *)
(* and ret.before the ids of the list and the active id before it.  The    *)
(* callbacks onUpdate and onActiveChange are the caller's and are taken to *)
(* return without calling the session.                                     *)
(***************************************************************************)
MaxImages == 3
NullId == 0
ImageIds == 1..MaxImages

idsOf(images) == [k \in 1..Len(images) |-> images[k].id]
hasImage(images, id) == \E k \in 1..Len(images) : images[k].id = id
\* images.findIndex(...), counted from 1; 0 for -1
findIndex(images, id) ==
    IF hasImage(images, id)
    THEN SetMin({k \in 1..Len(images) : images[k].id = id})
    ELSE 0

SessionCalls ==
    {"new ImageSession", "addImage", "removeImage", "clearAll", "setActiveImage",
     "updateImageResult", "setImageStatus"}
\* the (status, error) arguments of setImageStatus
SessionStatuses ==
    {[status |-> "processing", error |-> FALSE], [status |-> "error", error |-> TRUE]}

InitSession ==
    /\ call = [fn |-> "new ImageSession"]
    /\ ret = [status |-> "done", before |-> [ids |-> <<>>, activeImageId |-> NullId]]
    /\ pc = "fn"
    /\ heap = [images |-> <<>>, activeImageId |-> NullId, issued |-> {}]
    /\ loc = NoLoc

sessionMutSetAnyActive(session, id) == [session EXCEPT !.activeImageId = id]

\* setActiveImage(id) on the fields
setActiveImage(session, id) ==
    IF id # NullId /\ ~hasImage(session.images, id) THEN session
    ELSE [session EXCEPT !.activeImageId = id]

removeAt(images, idx) == SubSeq(images, 1, idx - 1) \o SubSeq(images, idx + 1, Len(images))

\* what a call leaves in call and ret
called(c) ==
    /\ call' = c
    /\ ret' = [status |-> "done",
               before |-> [ids |-> idsOf(heap.images),
                           activeImageId |-> heap.activeImageId]]
    /\ UNCHANGED <<pc, loc>>

AddImage ==
    /\ call.fn \in SessionCalls
    /\ \E id \in ImageIds \ heap.issued :
          /\ heap' = (CHOOSE v_ \in {
                        IF heap.activeImageId = NullId THEN setActiveImage(pushed, id)
                        ELSE pushed
                        : pushed \in {[heap EXCEPT
                             !.images = Append(@, [id |-> id, status |-> "pending",
                                                   result |-> FALSE, error |-> FALSE]),
                             !.issued = @ \cup {id}]} } : TRUE)
          /\ called([fn |-> "addImage", id |-> id])

RemoveImage ==
    /\ call.fn \in SessionCalls
    /\ \E id \in ImageIds :
          /\ heap' = (CHOOSE v_ \in {
                        IF idx = 0 THEN heap
                        ELSE (CHOOSE v_ \in {
                               IF heap.activeImageId = id
                               THEN IF Len(spliced.images) > 0
                                    THEN setActiveImage(spliced,
                                           spliced.images[Min2(idx, Len(spliced.images))].id)
                                    ELSE setActiveImage(spliced, NullId)
                               ELSE spliced
                               : spliced \in {[heap EXCEPT !.images = removeAt(@, idx)]}
                               } : TRUE)
                        : idx \in {findIndex(heap.images, id)} } : TRUE)
          /\ called([fn |-> "removeImage", id |-> id])

ClearAll ==
    /\ call.fn \in SessionCalls
    /\ heap' = setActiveImage([heap EXCEPT !.images = <<>>], NullId)
    /\ called([fn |-> "clearAll"])

SetActiveImage ==
    /\ call.fn \in SessionCalls
    /\ \E id \in ImageIds \cup {NullId} :
          /\ heap' = setActiveImage(heap, id)
          /\ called([fn |-> "setActiveImage", id |-> id])

UpdateImageResult ==
    /\ call.fn \in SessionCalls
    /\ \E id \in ImageIds :
          /\ heap' = (CHOOSE v_ \in {
                        IF idx = 0 THEN heap
                        ELSE [heap EXCEPT !.images[idx].result = TRUE,
                                          !.images[idx].status = "done"]
                        : idx \in {findIndex(heap.images, id)} } : TRUE)
          /\ called([fn |-> "updateImageResult", id |-> id])

SetImageStatus ==
    /\ call.fn \in SessionCalls
    /\ \E id \in ImageIds, st \in SessionStatuses :
          /\ heap' = (CHOOSE v_ \in {
                        IF idx = 0 THEN heap
                        ELSE [heap EXCEPT !.images[idx].status = st.status,
                                          !.images[idx].error = @ \/ st.error]
                        : idx \in {findIndex(heap.images, id)} } : TRUE)
          /\ called([fn |-> "setImageStatus", id |-> id, status |-> st.status,
                     error |-> st.error])

NextSession ==
    \/ AddImage
    \/ RemoveImage
    \/ ClearAll
    \/ SetActiveImage
    \/ UpdateImageResult
    \/ SetImageStatus

SpecSession == InitSession /\ [][NextSession]_vars

\* C30: whatever calls were made, activeImageId is null or the id of an
\* image in the list; setActiveImage with an id that is not in the list
\* changes neither the list nor the active id; addImage with nothing active
\* makes the new image the active one; removeImage of the active image makes
\* active the image now at the index the removed one had, or the last one,
\* or null when the list is empty.
C30_ActiveIsListed ==
    call.fn \in SessionCalls
    => /\ heap.activeImageId = NullId \/ hasImage(heap.images, heap.activeImageId)
       /\ (/\ call.fn = "setActiveImage"
           /\ call.id # NullId
           /\ \A k \in 1..Len(ret.before.ids) : ret.before.ids[k] # call.id)
          => /\ idsOf(heap.images) = ret.before.ids
             /\ heap.activeImageId = ret.before.activeImageId
       /\ (call.fn = "addImage" /\ ret.before.activeImageId = NullId)
          => /\ heap.activeImageId = call.id
             /\ idsOf(heap.images) = Append(ret.before.ids, call.id)
       /\ (/\ call.fn = "removeImage"
           /\ call.id = ret.before.activeImageId
           /\ call.id # NullId)
          => LET idx == CHOOSE k \in 1..Len(ret.before.ids) : ret.before.ids[k] = call.id
                 n == Len(heap.images)
             IN  /\ n = Len(ret.before.ids) - 1
                 /\ heap.activeImageId =
                       IF n = 0 THEN NullId
                       ELSE IF idx <= n THEN heap.images[idx].id
                       ELSE heap.images[n].id

\* The active image, the second of three, was removed and the third, now
\* the second, became active.
C30_Witness ==
    /\ call.fn = "removeImage"
    /\ Len(ret.before.ids) = 3
    /\ ret.before.ids[2] = call.id
    /\ ret.before.activeImageId = call.id
    /\ Len(heap.images) = 2
    /\ heap.activeImageId = ret.before.ids[3]
    /\ heap.images[2].id = ret.before.ids[3]
====
